---- MODULE Spec2Model ----
(***************************************************************************)
(* A model of cerbero's packaging layer: the package descriptors of        *)
(* cerbero/packages/package.py, the RPM packager of                        *)
(* cerbero/packages/rpm.py and the helpers of cerbero/utils/__init__.py.   *)
(*                                                                         *)
(* A Python string is a sequence of atoms (characters, or longer pieces    *)
(* that the code never looks inside), so that concatenation, splitting,    *)
(* first-character access and character-wise prefixes are computed as the  *)
(* code computes them.  Every component of the program has its own         *)
(* variables and its own specification; a specification keeps the          *)
(* variables of the other components at their idle values.                 *)
(***************************************************************************)
EXTENDS Integers, Sequences, FiniteSets, TLC

VARIABLES
    package,        \* the descriptor's stored attributes and package_mode
    package0,       \* the descriptor as constructed (history)
    seen,           \* per mode and attribute, the value the last read returned
    last_modes,     \* the arguments of the last two set_mode calls (history)
    archive,        \* the member names of the tarball given to setup_source
    fs,             \* the paths written by the extraction
    tar_pc,         \* where setup_source ended
    tar_steps,      \* the steps of setup_source that ran after the extraction
    decl,           \* a Package's declared files, files_devel and platform maps
    resolved,       \* what load_files stored: _files, _recipes_files, ...
    listing,        \* the last results of files_list and devel_files_list
    store,          \* the packages of the store: _files, _files_devel, deps
    children,       \* the packages the store returns for the meta-package
    deps_result,    \* the last result of a recipes_dependencies call
    rpm_in,         \* the package, configuration and recipe inputs of a run
    dirs,           \* the staging roots that exist under config.home_dir
    runs,           \* per pipeline run: its stage, its root, the spec written
    descs,          \* two descriptors of one store and their package_mode
    reads,          \* per descriptor, mode and attribute, the last read
    sd,             \* a descriptor's sys_deps maps and mode, and its config
    sd_result,      \* the last get_sys_deps call: its argument and result
    app,            \* an App descriptor, its store and its cookbook
    app_result,     \* the last result of an operation of the App descriptor
    link,           \* an installer or extension descriptor and its store
    link_result,    \* the last operation on it: result and store queries
    pipe,           \* a packaging run: the stages that ran and its outcome
    loops,          \* per event loop: whether it is running, and on which thread
    tasks,          \* per task of a batch: waiting, in flight or finished
    sem,            \* per call: the value of its semaphore
    calls,          \* per run_until_complete call: where it is, what it returned
    ruc,            \* a run_until_complete call: its tasks, their ends, its return
    cmd,            \* a run of the package command: its arguments, what it did
    lic,            \* a Package's resolved entries and its last license map
    rec,            \* a recipes_dependencies or files_list call: frames, result
    bld             \* a build() call: its architecture, the files, what it did

modeVars == <<package, package0, seen, last_modes>>
tarVars == <<archive, fs, tar_pc, tar_steps>>
filesVars == <<decl, resolved, listing>>
depsVars == <<store, children, deps_result>>
rpmVars == <<rpm_in, dirs, runs>>
pairVars == <<descs, reads>>
sysVars == <<sd, sd_result>>
appVars == <<app, app_result>>
linkVars == <<link, link_result>>
pipeVars == <<pipe>>
loopVars == <<loops, tasks, sem, calls>>
rucVars == <<ruc>>
cmdVars == <<cmd>>
licVars == <<lic>>
recVars == <<rec>>
bldVars == <<bld>>
vars == <<modeVars, tarVars, filesVars, depsVars, rpmVars, pairVars, sysVars,
          appVars, linkVars, pipeVars, loopVars, rucVars, cmdVars, licVars,
          recVars, bldVars>>

\* the variables of the other components
lastVars == <<rucVars, cmdVars, licVars, recVars, bldVars>>
laterVars == <<pairVars, sysVars, appVars, linkVars, pipeVars, loopVars,
               lastVars>>
midVars == <<pairVars, sysVars, appVars, linkVars, pipeVars, loopVars>>
firstVars == <<modeVars, tarVars, filesVars, depsVars, rpmVars>>
notModeVars == <<tarVars, filesVars, depsVars, rpmVars, laterVars>>
notTarVars == <<modeVars, filesVars, depsVars, rpmVars, laterVars>>
notFilesVars == <<modeVars, tarVars, depsVars, rpmVars, laterVars>>
notDepsVars == <<modeVars, tarVars, filesVars, rpmVars, laterVars>>
notRpmVars == <<modeVars, tarVars, filesVars, depsVars, laterVars>>
notPairVars == <<firstVars, sysVars, appVars, linkVars, pipeVars, loopVars,
                  lastVars>>
notSysVars == <<firstVars, pairVars, appVars, linkVars, pipeVars, loopVars,
                 lastVars>>
notAppVars == <<firstVars, pairVars, sysVars, linkVars, pipeVars, loopVars,
                 lastVars>>
notLinkVars == <<firstVars, pairVars, sysVars, appVars, pipeVars, loopVars,
                  lastVars>>
notPipeVars == <<firstVars, pairVars, sysVars, appVars, linkVars, loopVars,
                  lastVars>>
notLoopVars == <<firstVars, pairVars, sysVars, appVars, linkVars, pipeVars,
                  lastVars>>
notRucVars == <<firstVars, midVars, cmdVars, licVars, recVars, bldVars>>
notCmdVars == <<firstVars, midVars, rucVars, licVars, recVars, bldVars>>
notLicVars == <<firstVars, midVars, rucVars, cmdVars, recVars, bldVars>>
notRecVars == <<firstVars, midVars, rucVars, cmdVars, licVars, bldVars>>
notBldVars == <<firstVars, midVars, rucVars, cmdVars, licVars, recVars>>

----------------------------------------------------------------------------
(* Python values and string helpers *)

\* Python's None: a value that is no string of the model
None == <<"None">>

\* the sequences over S of length at most n
SeqUpTo(S, n) == UNION {[1..k -> S] : k \in 0..n}

Last(s) == s[Len(s)]
Front(s) == SubSeq(s, 1, Len(s) - 1)

RECURSIVE Concat(_)
\* the concatenation of a sequence of sequences
Concat(ss) == IF ss = <<>> THEN <<>> ELSE Head(ss) \o Concat(Tail(ss))

RECURSIVE split(_, _)
\* str.split(sep): the pieces between the separators (always at least one)
split(s, sep) ==
    IF \A i \in 1..Len(s) : s[i] # sep
    THEN <<s>>
    ELSE LET i == CHOOSE k \in 1..Len(s) :
                      s[k] = sep /\ \A j \in 1..(k - 1) : s[j] # sep
         IN <<SubSeq(s, 1, i - 1)>> \o split(SubSeq(s, i + 1, Len(s)), sep)

RECURSIVE join_str(_, _)
\* sep.join(parts)
join_str(sep, parts) ==
    IF parts = <<>> THEN <<>>
    ELSE IF Len(parts) = 1 THEN parts[1]
    ELSE parts[1] \o <<sep>> \o join_str(sep, Tail(parts))

startswith(s, p) == Len(s) >= Len(p) /\ SubSeq(s, 1, Len(p)) = p

----------------------------------------------------------------------------
(* os.path, as posixpath computes it *)

isabs(p) == startswith(p, <<"/">>)

\* os.path.join(a, b)
path_join(a, b) ==
    IF isabs(b) THEN b
    ELSE IF a = <<>> \/ Last(a) = "/" THEN a \o b
    ELSE a \o <<"/">> \o b

RECURSIVE norm_comps(_, _, _)
\* the loop of posixpath.normpath over the components
norm_comps(comps, new_comps, initial_slashes) ==
    IF comps = <<>> THEN new_comps
    ELSE LET comp == Head(comps) IN
         IF comp = <<>> \/ comp = <<".">>
         THEN norm_comps(Tail(comps), new_comps, initial_slashes)
         ELSE IF comp # <<".", ".">>
                 \/ (initial_slashes = 0 /\ new_comps = <<>>)
                 \/ (new_comps # <<>> /\ Last(new_comps) = <<".", ".">>)
         THEN norm_comps(Tail(comps), Append(new_comps, comp), initial_slashes)
         ELSE IF new_comps # <<>>
         THEN norm_comps(Tail(comps), Front(new_comps), initial_slashes)
         ELSE norm_comps(Tail(comps), new_comps, initial_slashes)

\* posixpath.normpath(path)
normpath(path) ==
    IF path = <<>> THEN <<".">>
    ELSE LET initial_slashes ==
                 IF ~startswith(path, <<"/">>) THEN 0
                 ELSE IF startswith(path, <<"/", "/">>)
                         /\ ~startswith(path, <<"/", "/", "/">>) THEN 2
                 ELSE 1
             comps == norm_comps(split(path, "/"), <<>>, initial_slashes)
             joined == [i \in 1..initial_slashes |-> "/"] \o join_str("/", comps)
         IN IF joined = <<>> THEN <<".">> ELSE joined

\* the working directory of the process, for relative paths
cwd == <<"/", "w">>

\* os.path.abspath(path)
abspath(path) == normpath(IF isabs(path) THEN path ELSE path_join(cwd, path))

\* os.path.commonprefix([a, b]): the longest common prefix, character by
\* character
commonprefix(a, b) ==
    LET n == IF Len(a) < Len(b) THEN Len(a) ELSE Len(b)
        same == {k \in 0..n : \A i \in 1..k : a[i] = b[i]}
        k == CHOOSE x \in same : \A y \in same : y <= x
    IN SubSeq(a, 1, k)

\* os.path.dirname(p)
dirname(p) ==
    LET slashes == {i \in 1..Len(p) : p[i] = "/"}
        i == IF slashes = {} THEN 0
             ELSE CHOOSE x \in slashes : \A y \in slashes : y <= x
        head == SubSeq(p, 1, i)
        RECURSIVE rstrip(_)
        rstrip(h) == IF h # <<>> /\ Last(h) = "/" THEN rstrip(Front(h)) ELSE h
    IN IF head # <<>> /\ \E j \in 1..Len(head) : head[j] # "/"
       THEN rstrip(head) ELSE head

----------------------------------------------------------------------------
(* PackageBase: the mode-dependent attributes *)

\* PackageType.RUNTIME and PackageType.DEVEL: the markers appended to the name
PackageType_RUNTIME == <<>>
PackageType_DEVEL == <<"-devel">>
PackageTypes == {PackageType_RUNTIME, PackageType_DEVEL}

\* the attributes read through __getattribute__ in this model
Attrs == {"name", "shortdesc", "uuid", "resources_license"}

\* name.startswith('resources')
startswith_resources(name) == name \in {"resources_license"}

\* what a read leaves when the attribute access raises IndexError
IndexError == <<"IndexError">>

\* PackageBase.package_dir
package_dir(self) == dirname(self.file)

\* PackageBase.relative_path
relative_path(self, path) == abspath(path_join(package_dir(self), path))

\* a set_mode that stores the derived name instead of deriving it on read
set_mode_storing_name(self, package_type) ==
    [self EXCEPT !.package_mode = package_type,
                 !.name = self.name \o package_type]

\* a set_mode that toggles the stored uuid
set_mode_storing_uuid(self, package_type) ==
    [self EXCEPT !.package_mode = package_type,
                 !.uuid = IF self.uuid # None /\ self.uuid # <<>>
                          THEN [self.uuid EXCEPT ![1] = "1"] ELSE self.uuid]

\* PackageBase.set_mode
set_mode(self, package_type) == [self EXCEPT !.package_mode = package_type]

\* the uuid branch without the exchange of '0' and '1'
uuid_attr_always_zero(attr, package_mode) ==
    IF package_mode = PackageType_DEVEL /\ attr # None
    THEN IF attr = <<>> THEN IndexError ELSE [attr EXCEPT ![1] = "0"]
    ELSE attr

\* the uuid branch with the exchange of '0' and '1' only
uuid_attr_exchange_only(attr, package_mode) ==
    IF package_mode = PackageType_DEVEL /\ attr # None
    THEN IF attr = <<>> THEN IndexError
         ELSE IF attr[1] = "0" THEN [attr EXCEPT ![1] = "1"]
         ELSE IF attr[1] = "1" THEN [attr EXCEPT ![1] = "0"]
         ELSE attr
    ELSE attr

\* the uuid branch of PackageBase.__getattribute__
uuid_attr(attr, package_mode) ==
    IF package_mode = PackageType_DEVEL
    THEN IF attr # None
         THEN IF attr = <<>> THEN IndexError   \* uuid[0] of an empty list
              ELSE IF attr[1] # "0" THEN [attr EXCEPT ![1] = "0"]
              ELSE [attr EXCEPT ![1] = "1"]
         ELSE attr
    ELSE attr

\* a __getattribute__ that returns the stored name in every mode
getattribute_name_unmarked(self, name) ==
    LET attr == self[name] IN
    IF startswith_resources(name)
    THEN IF attr # None THEN relative_path(self, attr) ELSE attr
    ELSE IF name = "shortdesc"
    THEN IF self.package_mode = PackageType_DEVEL
         THEN attr \o <<" (Development Files)">> ELSE attr
    ELSE IF name = "uuid" THEN uuid_attr(attr, self.package_mode)
    ELSE attr

\* PackageBase.__getattribute__
getattribute(self, name) ==
    LET attr == self[name] IN
    IF startswith_resources(name)
    THEN IF attr # None THEN relative_path(self, attr) ELSE attr
    ELSE IF name = "name" THEN attr \o self.package_mode
    ELSE IF name = "shortdesc"
    THEN IF self.package_mode = PackageType_DEVEL
         THEN attr \o <<" (Development Files)">> ELSE attr
    ELSE IF name = "uuid" THEN uuid_attr(attr, self.package_mode)
    ELSE attr

\* the values a package file gives to the attributes
Names == {<<"a">>, <<"a", "-devel">>}
ShortDescs == {<<"A">>, <<"A", " (Development Files)">>}
Uuids == {None, <<>>, <<"0", "f">>, <<"1", "f">>, <<"a", "f">>}
ResourcePaths == {None, <<"l", ".", "t">>, <<".", ".", "/", "l">>}
PackageFiles == {<<"/", "p", "/", "x">>}

\* no read of the attribute yet
Unread == <<"Unread">>

\* PackageBase.__init__ on a package file's attributes
ModeInit ==
    /\ package \in [name : Names, shortdesc : ShortDescs, uuid : Uuids,
                    resources_license : ResourcePaths, file : PackageFiles,
                    package_mode : {PackageType_RUNTIME}]
    /\ package0 = package
    /\ seen = [m \in PackageTypes |-> [n \in Attrs |-> Unread]]
    /\ last_modes = <<>>

ModeIdle ==
    /\ package = None
    /\ package0 = None
    /\ seen = None
    /\ last_modes = <<>>

\* a caller switches the mode
SetMode(package_type) ==
    /\ package' = set_mode(package, package_type)
    /\ last_modes' = IF Len(last_modes) < 2 THEN Append(last_modes, package_type)
                     ELSE <<last_modes[2], package_type>>
    /\ UNCHANGED <<package0, seen, notModeVars>>

\* a caller reads an attribute
ReadAttr(name) ==
    /\ seen' = [seen EXCEPT ![package.package_mode][name] =
                                getattribute(package, name)]
    /\ UNCHANGED <<package, package0, last_modes, notModeVars>>

\* MetaPackage.get_wix_registry_key: reads shortdesc in RUNTIME mode, restores
\* the caller's mode and reads name
GetWixRegistryKey ==
    LET package_type == package.package_mode
        runtime == set_mode(package, PackageType_RUNTIME)
        restored == set_mode(runtime, package_type)
    IN /\ package' = restored
       /\ seen' = [seen EXCEPT
                     ![PackageType_RUNTIME]["shortdesc"] =
                         getattribute(runtime, "shortdesc"),
                     ![package_type]["name"] = getattribute(restored, "name")]
       /\ UNCHANGED <<package0, last_modes, notModeVars>>

ModeNext ==
    \/ \E package_type \in PackageTypes : SetMode(package_type)
    \/ \E name \in Attrs : ReadAttr(name)
    \/ GetWixRegistryKey

----------------------------------------------------------------------------
(* RPMPackager.setup_source: the extraction of the tarball *)

\* the most members an archive of the model holds
MaxMembers == 2

\* srcdir: os.path.join(tmpdir, 'SOURCES') of create_tree, here /t/S
srcdir == <<"/", "t", "/", "S">>

\* the member names an archive may hold: a, ., ../S/a (inside),
\* ../e, /e, ../../etc/passwd (outside), ../Sx and /t/Sx/b (outside, in a
\* sibling directory whose name starts with the name of srcdir)
MemberNames ==
    { <<"a">>, <<".">>, <<".", ".", "/", "S", "/", "a">>,
      <<".", ".", "/", "e">>, <<"/", "e">>,
      <<".", ".", "/", ".", ".", "/", "etc", "/", "passwd">>,
      <<".", ".", "/", "S", "x">>, <<"/", "t", "/", "S", "x", "/", "b">> }

\* is_within_directory of setup_source
is_within_directory(directory, target) ==
    LET abs_directory == abspath(directory)
        abs_target == abspath(target)
        prefix == commonprefix(abs_directory, abs_target)
    IN prefix = abs_directory

\* where tar.extractall(path) writes the members
extractall(members, path) ==
    {abspath(path_join(path, members[i])) : i \in 1..Len(members)}

\* an extraction that checks each member right before it writes it
safe_extract_member_by_member(members, path) ==
    LET bad == {i \in 1..Len(members) :
                    ~is_within_directory(path, path_join(path, members[i]))}
    IN IF bad = {}
       THEN [raised |-> FALSE, written |-> extractall(members, path)]
       ELSE LET first == CHOOSE i \in bad : \A j \in bad : i <= j
            IN [raised |-> TRUE,
                written |-> extractall(SubSeq(members, 1, first - 1), path)]

\* safe_extract of setup_source: every member is checked, then all are written
safe_extract(members, path) ==
    IF \E i \in 1..Len(members) :
           ~is_within_directory(path, path_join(path, members[i]))
    THEN [raised |-> TRUE, written |-> {}]
    ELSE [raised |-> FALSE, written |-> extractall(members, path)]

TarInit ==
    /\ archive \in SeqUpTo(MemberNames, MaxMembers)
    /\ fs = {}
    /\ tar_pc = "start"
    /\ tar_steps = <<>>

TarIdle ==
    /\ archive = <<>>
    /\ fs = {}
    /\ tar_pc = "idle"
    /\ tar_steps = <<>>

\* RPMPackager.setup_source
SetupSource ==
    /\ tar_pc = "start"
    /\ LET r == safe_extract(archive, srcdir) IN
       IF r.raised
       THEN /\ tar_pc' = "path traversal"
            /\ fs' = fs \cup r.written
            /\ tar_steps' = tar_steps
       ELSE /\ tar_pc' = "done"
            /\ fs' = fs \cup r.written
            /\ tar_steps' = <<"remove", "pre_build", "tar", "rmtree">>
    /\ UNCHANGED <<archive, notTarVars>>

TarNext == SetupSource

----------------------------------------------------------------------------
(* Package: the resolution of the declared files *)

\* the most entries of Package.files and of Package.files_devel in the model
MaxFiles == 2
MaxDevelFiles == 1

\* FilesProvider.LIBS_CAT
LIBS_CAT == "libs"

\* the cookbook: per recipe and category, the files the recipe installs
Recipes == {"recipeA", "recipeB"}
Categories == <<"libs", "tools", "devel">>
cookbook ==
    [recipeA |-> [libs |-> <<"lib/libA.so">>, tools |-> <<"bin/a-tool">>,
                  devel |-> <<"lib/libA.a", "include/a.h">>],
     recipeB |-> [libs |-> <<"lib/libB.so">>, tools |-> <<"bin/b-tool">>,
                  devel |-> <<"include/b.h">>]]

\* Recipe.files_list_by_categories(categories)
files_list_by_categories(recipe, categories) ==
    Concat([i \in 1..Len(categories) |->
                IF categories[i] \in DOMAIN cookbook[recipe]
                THEN cookbook[recipe][categories[i]] ELSE <<>>])

\* Recipe.dist_files_list(): the files of every category but devel
dist_files_list(recipe) ==
    files_list_by_categories(recipe,
        SelectSeq(Categories, LAMBDA c : c # "devel"))

\* Recipe.devel_files_list()
recipe_devel_files_list(recipe) ==
    files_list_by_categories(recipe, <<"devel">>)

\* the file names of the cookbook in the order of Python's string comparison
FileOrder ==
    <<"bin/a-tool", "bin/b-tool", "include/a.h", "include/b.h",
      "lib/libA.a", "lib/libA.so", "lib/libB.so">>

\* a < b on file names
str_lt(a, b) ==
    LET rank(f) == CHOOSE i \in 1..Len(FileOrder) : FileOrder[i] = f
    IN rank(a) < rank(b)

RECURSIVE sorted(_)
\* sorted(files): a stable sort by string comparison
sorted(files) ==
    IF files = <<>> THEN <<>>
    ELSE LET rest == sorted(Front(files))
             x == Last(files)
             before == SelectSeq(rest, LAMBDA y : ~str_lt(x, y))
             after == SelectSeq(rest, LAMBDA y : str_lt(x, y))
         IN before \o <<x>> \o after

\* d[key] = value on a dict kept as a sequence of <<key, value>> in insertion
\* order
dict_set(d, key, value) ==
    IF \E i \in 1..Len(d) : d[i][1] = key
    THEN [i \in 1..Len(d) |-> IF d[i][1] = key THEN <<key, value>> ELSE d[i]]
    ELSE Append(d, <<key, value>>)

RECURSIVE parse_entries(_, _)
\* one loop of Package._parse_files
parse_entries(entries, d) ==
    IF entries = <<>> THEN d
    ELSE LET l == split(Head(entries), ":")
         IN parse_entries(Tail(entries),
                          dict_set(d, l[1][1],
                                   [i \in 1..(Len(l) - 1) |-> l[i + 1][1]]))

\* platform_files.get(target_platform, [])
dict_get(d, key, default) == IF key \in DOMAIN d THEN d[key] ELSE default

\* config.target_platform
target_platform == "linux"

\* Package.load_files with Package._parse_files
load_files(self) ==
    LET _files == self.files
                    \o dict_get(self.platform_files, target_platform, <<>>)
        _files_devel == self.files_devel
                    \o dict_get(self.platform_files_devel, target_platform, <<>>)
    IN [_files |-> _files,
        _files_devel |-> _files_devel,
        _recipes_files |-> parse_entries(_files, <<>>),
        _recipes_files_devel |-> parse_entries(_files_devel, <<>>)]

\* a files_list that takes the whole dist list whatever the categories
files_list_ignoring_categories(self) ==
    sorted(Concat([i \in 1..Len(self._recipes_files) |->
                       dist_files_list(self._recipes_files[i][1])]))

\* Package.files_list.  The dict is walked in insertion order; the sort makes
\* the result the same for every order.
files_list(self) ==
    sorted(Concat([i \in 1..Len(self._recipes_files) |->
        LET recipe_name == self._recipes_files[i][1]
            categories == self._recipes_files[i][2]
        IN IF Len(categories) = 0
           THEN dist_files_list(recipe_name)
           ELSE files_list_by_categories(recipe_name, categories)]))

\* a devel_files_list that pulls the devel files of every runtime entry
devel_files_list_ungated(self) ==
    sorted(
        Concat([i \in 1..Len(self._recipes_files) |->
                    recipe_devel_files_list(self._recipes_files[i][1])])
        \o Concat([i \in 1..Len(self._recipes_files_devel) |->
            LET recipe == self._recipes_files_devel[i][1]
                categories == self._recipes_files_devel[i][2]
            IN IF categories = <<>>
               THEN recipe_devel_files_list(recipe)
               ELSE files_list_by_categories(recipe, categories)]))

\* Package.devel_files_list
devel_files_list(self) ==
    sorted(
        Concat([i \in 1..Len(self._recipes_files) |->
            LET recipe == self._recipes_files[i][1]
                categories == self._recipes_files[i][2]
            IN IF Len(categories) = 0
                  \/ \E k \in 1..Len(categories) : categories[k] = LIBS_CAT
               THEN recipe_devel_files_list(recipe)
               ELSE <<>>])
        \o Concat([i \in 1..Len(self._recipes_files_devel) |->
            LET recipe == self._recipes_files_devel[i][1]
                categories == self._recipes_files_devel[i][2]
            IN IF categories = <<>>
               THEN recipe_devel_files_list(recipe)
               ELSE files_list_by_categories(recipe, categories)]))

\* the entries a package file may list in files and in the platform maps
FileEntries ==
    { <<"recipeA">>, <<"recipeA", ":", "tools">>, <<"recipeA", ":", "libs">>,
      <<"recipeB", ":", "tools">>, <<"recipeB", ":", "libs", ":", "tools">> }
DevelEntries == { <<"recipeA">>, <<"recipeB", ":", "devel">> }
PlatformFiles ==
    { <<>>, [linux |-> << <<"recipeB">> >>],
      [linux |-> << <<"recipeA", ":", "tools">> >>],
      [windows |-> << <<"recipeA", ":", "libs">> >>] }
PlatformFilesDevel == { <<>>, [linux |-> << <<"recipeB">> >>] }

\* the package before load_files: _files and _recipes_files are not set
NotLoaded == [loaded |-> FALSE]

\* Package.__init__ on a package file's lists
FilesInit ==
    /\ decl \in [files : SeqUpTo(FileEntries, MaxFiles),
                 files_devel : SeqUpTo(DevelEntries, MaxDevelFiles),
                 platform_files : PlatformFiles,
                 platform_files_devel : PlatformFilesDevel]
    /\ resolved = NotLoaded
    /\ listing = [files_list |-> Unread, devel_files_list |-> Unread]

FilesIdle ==
    /\ decl = None
    /\ resolved = None
    /\ listing = None

\* Package.load_files
LoadFiles ==
    /\ resolved' = load_files(decl)
    /\ UNCHANGED <<decl, listing, notFilesVars>>

\* Package.files_list, once load_files has run
FilesList ==
    /\ resolved # NotLoaded
    /\ listing' = [listing EXCEPT !.files_list = files_list(resolved)]
    /\ UNCHANGED <<decl, resolved, notFilesVars>>

\* Package.devel_files_list, once load_files has run
DevelFilesList ==
    /\ resolved # NotLoaded
    /\ listing' = [listing EXCEPT !.devel_files_list = devel_files_list(resolved)]
    /\ UNCHANGED <<decl, resolved, notFilesVars>>

FilesNext ==
    \/ LoadFiles
    \/ FilesList
    \/ DevelFilesList

----------------------------------------------------------------------------
(* recipes_dependencies of Package and MetaPackage *)

\* the most packages the store returns for a meta-package in the model
MaxChildren == 2

\* the elements of a list
Elems(list) == {list[i] : i \in 1..Len(list)}

RECURSIVE remove_list_duplicates_keep_last(_)
\* a removal of duplicates that keeps the last occurrence of each element
remove_list_duplicates_keep_last(seq) ==
    IF seq = <<>> THEN <<>>
    ELSE LET rest == remove_list_duplicates_keep_last(Tail(seq))
         IN IF Head(seq) \in Elems(rest) THEN rest ELSE <<Head(seq)>> \o rest

RECURSIVE remove_list_duplicates(_)
\* utils.remove_list_duplicates: x is kept when it is not in seen yet
remove_list_duplicates(seq) ==
    IF seq = <<>> THEN <<>>
    ELSE LET kept == remove_list_duplicates(Front(seq))
             x == Last(seq)
         IN IF x \in Elems(kept) THEN kept ELSE Append(kept, x)

\* [x.split(':')[0] for x in entries]
recipe_names(entries) ==
    [i \in 1..Len(entries) |-> split(entries[i], ":")[1][1]]

RECURSIVE package_recipes_dependencies(_, _)
\* Package.recipes_dependencies of the package the store holds under name
package_recipes_dependencies(st, name) ==
    LET self == st[name]
        own == recipe_names(self._files) \o recipe_names(self._files_devel)
    IN own \o Concat([i \in 1..Len(self.deps) |->
                          package_recipes_dependencies(st, self.deps[i])])

\* MetaPackage.recipes_dependencies over the packages the store returns
meta_recipes_dependencies(st, packages) ==
    remove_list_duplicates(
        Concat([i \in 1..Len(packages) |->
                    package_recipes_dependencies(st, packages[i])]))

\* the packages of the store and what their package files may declare; deps
\* only name packages that stand later in the order base, codecs, core
PackageNames == {"base", "codecs", "core"}
StoredFiles ==
    { << <<"recipeA">>, <<"recipeB", ":", "tools">> >>,
      << <<"recipeB">>, <<"recipeA", ":", "libs">> >>,
      << <<"recipeC">> >> }
StoredFilesDevel == { <<>>, << <<"recipeA">> >> }

\* no recipes_dependencies call has returned yet
NoResult == [of |-> "nobody", value |-> <<>>]

DepsInit ==
    /\ store \in [PackageNames ->
                    [_files : StoredFiles, _files_devel : StoredFilesDevel,
                     deps : {<<>>, <<"core">>}]]
    /\ store["core"].deps = <<>>
    /\ store["core"]._files_devel = <<>>
    /\ store["codecs"]._files_devel = <<>>
    /\ children \in SeqUpTo(PackageNames, MaxChildren)
    /\ deps_result = NoResult

DepsIdle ==
    /\ store = None
    /\ children = <<>>
    /\ deps_result = None

\* Package.recipes_dependencies of one package of the store
PackageRecipesDependencies(name) ==
    /\ deps_result' = [of |-> name,
                       value |-> package_recipes_dependencies(store, name)]
    /\ UNCHANGED <<store, children, notDepsVars>>

\* MetaPackage.recipes_dependencies
MetaRecipesDependencies ==
    /\ deps_result' = [of |-> "meta",
                       value |-> meta_recipes_dependencies(store, children)]
    /\ UNCHANGED <<store, children, notDepsVars>>

DepsNext ==
    \/ \E name \in PackageNames : PackageRecipesDependencies(name)
    \/ MetaRecipesDependencies

----------------------------------------------------------------------------
(* RPMPackager: create_tree and prepare *)

\* a template is a sequence of literal pieces and of %(key)s placeholders
Lit(text) == [lit |-> text]
Key(name) == [key |-> name]

\* template % template_dict: every placeholder is replaced by its value, once
format(template, template_dict) ==
    Concat([i \in 1..Len(template) |->
                IF "key" \in DOMAIN template[i]
                THEN template_dict[template[i].key]
                ELSE <<template[i].lit>>])

SPEC_TPL ==
    << Lit("\n%define _topdir "), Key("topdir"),
       Lit("\n%define _package_name "), Key("package_name"),
       Lit("\n%undefine _debugsource_packages\n%undefine _debuginfo_subpackages\n\nName:           "),
       Key("p_prefix"), Key("name"),
       Lit("\nVersion:        "), Key("version"),
       Lit("\nRelease:        1\nSummary:        "), Key("summary"),
       Lit("\nSource:         "), Key("source"),
       Lit("\nGroup:          Applications/Internet\nLicense:        "),
       Key("licenses"),
       Lit("\nPrefix:         "), Key("prefix"),
       Lit("\nPackager:       "), Key("packager"),
       Lit("\nVendor:         "), Key("vendor"),
       Lit("\n"), Key("url"), Lit("\n"), Key("requires"), Lit("\n"),
       Key("provides_conflicts_obsoletes"),
       Lit("\n\n%description\n"), Key("description"),
       Lit("\n\n"), Key("devel_package"),
       Lit("\n\n%prep\n%setup -n %{_package_name}\n\n%build\n\n%install\nmkdir -p $RPM_BUILD_ROOT/%{prefix}\ncp -r $RPM_BUILD_DIR/%{_package_name}/* $RPM_BUILD_ROOT/%{prefix}\n\n"),
       Lit("# Workaround to remove full source dir paths from debuginfo packages\n# (tested in Fedora 16/17).\n#\n# What happens is that rpmbuild invokes find-debuginfo.sh which in turn\n# calls debugedit passing $RPM_BUILD_DIR as the \"base-dir\" param (-b) value.\n# debugedit then removes the \"base-dir\" path from debug information.\n#\n"),
       Lit("# Normally packages are built inside $RPM_BUILD_DIR, thus resulting in proper\n# debuginfo packages, but as we are building our recipes at $sources_dir and\n# only including binaries here directly, no path would be removed and debuginfo\n# packages containing full paths to source files would be used.\n#\n"),
       Lit("# Setting RPM_BUILD_DIR to $sources_dir should do the trick, setting here and\n# hoping for the best.\nexport RPM_BUILD_DIR="),
       Key("sources_dir"),
       Lit("\n\n%clean\nrm -rf $RPM_BUILD_ROOT\n\n"), Key("scripts"),
       Lit("\n\n%files\n"), Key("files"),
       Lit("\n\n"), Key("devel_files"), Lit("\n") >>

DEVEL_PACKAGE_TPL ==
    << Lit("\n%package devel\n"), Key("requires"),
       Lit("\nSummary: "), Key("summary"), Lit("\n"),
       Key("provides_conflicts_obsoletes"),
       Lit("\n\n%description devel\n"), Key("description"), Lit("\n") >>

META_SPEC_TPL ==
    << Lit("\n%define _topdir "), Key("topdir"),
       Lit("\n%define _package_name "), Key("package_name"),
       Lit("\n\nName:           "), Key("p_prefix"), Key("name"),
       Lit("\nVersion:        "), Key("version"),
       Lit("\nRelease:        1\nSummary:        "), Key("summary"),
       Lit("\nGroup:          Applications/Internet\nLicense:        "),
       Key("licenses"),
       Lit("\nPackager:       "), Key("packager"),
       Lit("\nVendor:         "), Key("vendor"),
       Lit("\n"), Key("url"), Lit("\n\n"), Key("requires"),
       Lit("\n\n%description\n"), Key("description"),
       Lit("\n\n"), Key("devel_package"),
       Lit("\n\n%prep\n\n%build\n\n%install\n\n%clean\nrm -rf $RPM_BUILD_ROOT\n\n%files\n\n"),
       Key("devel_files"), Lit("\n") >>

REQUIRE_TPL == << Lit("Requires: "), Key("s"), Lit("\n") >>
DEVEL_TPL == << Lit("%files devel \n"), Key("s") >>
URL_TPL == << Lit("URL: "), Key("s"), Lit("\n") >>
PRE_TPL == "%pre\n"

\* what an operator leaves when the call raises EmptyPackageError
EmptyPackageError == <<"EmptyPackageError">>

\* LinuxPackager.files_list(package_type): the package's list for the type,
\* EmptyPackageError when it is empty
packager_files_list(self, package_type) ==
    LET files == IF package_type = PackageType_DEVEL
                 THEN self.devel_files ELSE self.files
    IN IF files = <<>> THEN EmptyPackageError ELSE files

\* x.endswith('.py')
endswith_py(x) == x # <<>> /\ Last(x) = ".py"

RECURSIVE add_compiled(_, _)
\* the loop of _files_string_list over the .py files: appends f + 'c' and
\* f + 'o' when they are not in files
add_compiled(py, files) ==
    IF py = <<>> THEN files
    ELSE LET f == Head(py)
             with_c == IF (f \o <<"c">>) \in Elems(files)
                       THEN files ELSE Append(files, f \o <<"c">>)
             with_o == IF (f \o <<"o">>) \in Elems(with_c)
                       THEN with_c ELSE Append(with_c, f \o <<"o">>)
         IN add_compiled(Tail(py), with_o)

\* RPMPackager._files_string_list
files_string_list(self, package_type) ==
    IF self.build_meta_package THEN <<>>
    ELSE LET files == packager_files_list(self, package_type)
         IN IF files = EmptyPackageError THEN EmptyPackageError
            ELSE LET all == add_compiled(SelectSeq(files, endswith_py), files)
                 IN Concat(join_str(<<"\n">>,
                        [i \in 1..Len(all) |->
                             <<path_join(<<"%{prefix}">>, all[i])>>]))

\* RPMPackager._get_requires and _get_meta_requires over the dependencies
\* that LinuxPackager.get_requires names
get_requires(self, package_type) ==
    LET devel_suffix == IF package_type = PackageType_DEVEL
                        THEN <<"-devel">> ELSE <<>>
    IN Concat([i \in 1..Len(self.requires) |->
                   format(REQUIRE_TPL, [s |-> self.requires[i] \o devel_suffix])])

\* a _devel_package_and_files that does not catch EmptyPackageError
devel_package_and_files_unguarded(self) ==
    LET summary == <<"Development files for ">> \o getattribute(self.package, "name")
        args == [summary |-> summary, description |-> summary,
                 requires |-> get_requires(self, PackageType_DEVEL),
                 provides_conflicts_obsoletes |->
                     <<"Provides: ">> \o self.package_prefix
                         \o getattribute(self.package, "name") \o <<"-devel">>]
        files == IF self.build_meta_package \/ self.devel_files = <<>> THEN <<>>
                 ELSE files_string_list(self, PackageType_DEVEL)
    IN <<format(DEVEL_PACKAGE_TPL, args), format(DEVEL_TPL, [s |-> files])>>

\* RPMPackager._devel_package_and_files: the devel sub-package block and the
\* devel files block
devel_package_and_files(self) ==
    LET summary == <<"Development files for ">> \o getattribute(self.package, "name")
        args == [summary |-> summary, description |-> summary,
                 requires |-> get_requires(self, PackageType_DEVEL),
                 provides_conflicts_obsoletes |->
                     <<"Provides: ">> \o self.package_prefix
                         \o getattribute(self.package, "name") \o <<"-devel">>]
        files == files_string_list(self, PackageType_DEVEL)
        devel == IF files = EmptyPackageError THEN <<>>
                 ELSE format(DEVEL_TPL, [s |-> files])
    IN <<format(DEVEL_PACKAGE_TPL, args), devel>>

\* the runtime files of prepare, with the install directory when it is not a
\* system prefix
prepare_runtime_files(self) ==
    LET listed == files_string_list(self, PackageType_RUNTIME)
        runtime_files == IF listed = EmptyPackageError THEN <<>> ELSE listed
    IN IF self.install_dir \notin {<<"/usr">>, <<"/usr/local">>}
       THEN runtime_files \o <<"\n">> \o path_join(self.install_dir, <<>>)
       ELSE runtime_files

\* the scripts of prepare: the bodies of the resource files that exist
prepare_scripts(self) ==
    IF self.preinstall # None
    THEN <<Lit(PRE_TPL)>> \o self.preinstall \o <<Lit("\n")>>
    ELSE <<>>

\* a template_dict whose source is the path of the tarball in the staging root
template_dict_source_path(self, tarname, tmpdir) ==
    LET d == devel_package_and_files(self) IN
    [name |-> getattribute(self.package, "name"),
     p_prefix |-> self.package_prefix,
     version |-> <<"1.0">>,
     package_name |-> self.package_prefix \o self.package.name \o <<"-1.0">>,
     summary |-> getattribute(self.package, "shortdesc"),
     description |-> getattribute(self.package, "shortdesc"),
     licenses |-> <<"GPL">>,
     packager |-> <<"default">>,
     vendor |-> <<"default">>,
     url |-> IF self.url # <<"default">>
             THEN format(URL_TPL, [s |-> self.url]) ELSE <<>>,
     requires |-> get_requires(self, PackageType_RUNTIME),
     prefix |-> self.install_dir,
     source |-> path_join(path_join(tmpdir, <<"SOURCES">>), tarname),
     topdir |-> tmpdir,
     devel_package |-> IF self.devel THEN d[1] ELSE <<>>,
     devel_files |-> IF self.devel THEN d[2] ELSE <<>>,
     files |-> prepare_runtime_files(self),
     sources_dir |-> <<"/h/sources">>,
     provides_conflicts_obsoletes |-> <<>>]

\* the template_dict of RPMPackager.prepare, before the scripts are added
template_dict(self, tarname, tmpdir) ==
    LET d == devel_package_and_files(self) IN
    [name |-> getattribute(self.package, "name"),
     p_prefix |-> self.package_prefix,
     version |-> <<"1.0">>,
     package_name |-> self.package_prefix \o self.package.name \o <<"-1.0">>,
     summary |-> getattribute(self.package, "shortdesc"),
     description |-> getattribute(self.package, "shortdesc"),
     licenses |-> <<"GPL">>,
     packager |-> <<"default">>,
     vendor |-> <<"default">>,
     url |-> IF self.url # <<"default">>
             THEN format(URL_TPL, [s |-> self.url]) ELSE <<>>,
     requires |-> get_requires(self, PackageType_RUNTIME),
     prefix |-> self.install_dir,
     source |-> tarname,
     topdir |-> tmpdir,
     devel_package |-> IF self.devel THEN d[1] ELSE <<>>,
     devel_files |-> IF self.devel THEN d[2] ELSE <<>>,
     files |-> prepare_runtime_files(self),
     sources_dir |-> <<"/h/sources">>,
     provides_conflicts_obsoletes |-> <<>>]

\* RPMPackager.prepare: the spec document written to spec_path and the flag
\* has_devel_package
prepare(self, tarname, tmpdir) ==
    LET dict == template_dict(self, tarname, tmpdir)
        scripts == format(prepare_scripts(self), dict)
        template == IF self.build_meta_package THEN META_SPEC_TPL ELSE SPEC_TPL
    IN [_spec_str |-> format(template, dict @@ [scripts |-> scripts]),
        spec_path |-> path_join(tmpdir, getattribute(self.package, "name")
                                            \o <<".spec">>),
        has_devel_package |-> IF self.build_meta_package THEN TRUE
                              ELSE dict.devel_files # <<>>]

\* the runs of the pipeline, and the staging roots mkdtemp may allocate under
\* config.home_dir
Runs == {1, 2}
TmpNames == {<<"/h/tmpA">>, <<"/h/tmpB">>, <<"/h/tmpC">>}
SuppliedRoot == <<"/h/deps">>

\* the inputs of a run: the packager with its package and configuration
RpmInputs ==
    [package : [name : {<<"pkg">>}, shortdesc : {<<"Pkg">>},
                package_mode : {PackageType_RUNTIME}],
     package_prefix : {<<"cerbero-">>},
     build_meta_package : BOOLEAN,
     devel : BOOLEAN,
     files : {<<>>, << <<"bin/a">>, <<"lib/x", ".py">> >>},
     devel_files : {<<>>, << <<"include/a.h">> >>,
                    << <<"include/a.h">>, <<"lib/libA.a">> >>},
     install_dir : {<<"/usr">>, <<"/opt/x">>},
     url : {<<"default">>, <<"http://x">>},
     requires : {<< <<"base">> >>},
     preinstall : {None, <<Lit("ldconfig "), Key("prefix")>>}]

\* no run has started
NewRun == [pc |-> "new", tmpdir |-> None, _spec_str |-> None,
           has_devel_package |-> None]

RpmInit ==
    /\ rpm_in \in RpmInputs
    /\ dirs = {SuppliedRoot}
    /\ runs = [r \in Runs |-> NewRun]

RpmIdle ==
    /\ rpm_in = None
    /\ dirs = {}
    /\ runs = <<>>

\* RPMPackager.create_tree(None): mkdtemp allocates a root that does not exist
CreateTreeFresh(r) ==
    /\ runs[r].pc = "new"
    /\ \E tmpdir \in TmpNames \ dirs :
           /\ dirs' = dirs \cup {tmpdir}
           /\ runs' = [runs EXCEPT ![r].pc = "tree", ![r].tmpdir = tmpdir]
    /\ UNCHANGED <<rpm_in, notRpmVars>>

\* RPMPackager.create_tree(tmpdir) with the root the caller supplies
CreateTreeSupplied(r) ==
    /\ runs[r].pc = "new"
    /\ runs' = [runs EXCEPT ![r].pc = "tree", ![r].tmpdir = SuppliedRoot]
    /\ UNCHANGED <<rpm_in, dirs, notRpmVars>>

\* the tarname setup_source returns; None for a meta-package
TarnameOf(self) ==
    IF self.build_meta_package THEN None ELSE <<"pkg-1.0", ".tar">>

\* RPMPackager.prepare
Prepare(r) ==
    /\ runs[r].pc = "tree"
    /\ LET done == prepare(rpm_in, TarnameOf(rpm_in), runs[r].tmpdir)
       IN runs' = [runs EXCEPT ![r].pc = "prepared",
                               ![r]._spec_str = done._spec_str,
                               ![r].has_devel_package = done.has_devel_package]
    /\ UNCHANGED <<rpm_in, dirs, notRpmVars>>

RpmNext ==
    \/ \E r \in Runs : CreateTreeFresh(r)
    \/ \E r \in Runs : CreateTreeSupplied(r)
    \/ \E r \in Runs : Prepare(r)

----------------------------------------------------------------------------
(* Two descriptors of one store *)

\* the descriptors of the store
Descriptors == {"p", "q"}

\* the attributes read on them
PairAttrs == {"name", "uuid"}

\* the names of the package files of one store
StoreNames == Names \cup {<<"b">>}

\* PackagesStore keeps its descriptors by name: PackageBase.__init__ on two
\* package files with different names
PairInit ==
    /\ descs \in [Descriptors -> [name : StoreNames, uuid : Uuids,
                                   package_mode : {PackageType_RUNTIME}]]
    /\ descs["p"].name # descs["q"].name
    /\ reads = [d \in Descriptors |->
                  [m \in PackageTypes |-> [n \in PairAttrs |-> Unread]]]

PairIdle ==
    /\ descs = None
    /\ reads = None

\* a caller switches the mode of one descriptor
PairSetMode(d, package_type) ==
    /\ descs' = [descs EXCEPT ![d] = set_mode(descs[d], package_type)]
    /\ UNCHANGED <<reads, notPairVars>>

\* a caller reads an attribute of one descriptor
PairRead(d, name) ==
    /\ reads' = [reads EXCEPT ![d][descs[d].package_mode][name] =
                                  getattribute(descs[d], name)]
    /\ UNCHANGED <<descs, notPairVars>>

PairNext ==
    \/ \E d \in Descriptors, package_type \in PackageTypes :
           PairSetMode(d, package_type)
    \/ \E d \in Descriptors, name \in PairAttrs : PairRead(d, name)

----------------------------------------------------------------------------
(* PackageBase.get_sys_deps *)

\* x or y: None and the empty string are false
py_or(x, y) == IF x = None \/ x = <<>> THEN y ELSE x

\* a read of the local sys_deps that no branch assigned
UnboundLocalError == <<"UnboundLocalError">>

\* the lookup by distro before the lookup by distro version
lookup_sys_deps_distro_first(sys_deps, config) ==
    IF config.target_distro \in DOMAIN sys_deps
    THEN sys_deps[config.target_distro]
    ELSE IF config.target_distro_version \in DOMAIN sys_deps
    THEN sys_deps[config.target_distro_version]
    ELSE <<>>

\* the lookup of PackageBase.get_sys_deps in the selected map
lookup_sys_deps(sys_deps, config) ==
    IF config.target_distro_version \in DOMAIN sys_deps
    THEN sys_deps[config.target_distro_version]
    ELSE IF config.target_distro \in DOMAIN sys_deps
    THEN sys_deps[config.target_distro]
    ELSE <<>>

\* PackageBase.get_sys_deps: the map it selected and what it returned
get_sys_deps(self, package_mode_arg) ==
    LET package_mode == py_or(package_mode_arg, self.package_mode)
        selected == IF package_mode = PackageType_DEVEL THEN "sys_deps_devel"
                    ELSE IF package_mode = PackageType_RUNTIME THEN "sys_deps"
                    ELSE "unbound"
    IN IF selected = "unbound"
       THEN [map |-> selected, value |-> UnboundLocalError]
       ELSE [map |-> selected,
             value |-> lookup_sys_deps(self[selected], self.config)]

\* the keys of the dependency maps: a distro and one of its versions
SysDepsKeys == {"redhat", "redhat_fedora_30"}

\* the system packages a map names under a key
SysDepsOf(prefix, d) == [k \in d |-> <<prefix, k>>]

\* the dependency maps of a package file: {} when it declares none
SysDepsMaps(prefix) == {SysDepsOf(prefix, d) : d \in SUBSET SysDepsKeys}

\* the targets of a configuration
Configs ==
    [target_distro : {"redhat", "debian"},
     target_distro_version : {"redhat_fedora_30", "redhat_fedora_31"}]

\* no call of get_sys_deps yet
NoCall == [arg |-> None, package_mode |-> None, map |-> "none", value |-> <<>>]

\* PackageBase.__init__
SysInit ==
    /\ sd \in [package_mode : {PackageType_RUNTIME},
                sys_deps : SysDepsMaps("runtime"),
                sys_deps_devel : SysDepsMaps("devel"),
                config : Configs]
    /\ sd_result = NoCall

SysIdle ==
    /\ sd = None
    /\ sd_result = None

\* a caller switches the mode
SysSetMode(package_type) ==
    /\ sd' = set_mode(sd, package_type)
    /\ UNCHANGED <<sd_result, notSysVars>>

\* a caller asks for the system dependencies, with or without a mode
GetSysDeps(package_mode_arg) ==
    LET r == get_sys_deps(sd, package_mode_arg)
    IN /\ sd_result' = [arg |-> package_mode_arg,
                         package_mode |-> sd.package_mode,
                         map |-> r.map, value |-> r.value]
       /\ UNCHANGED <<sd, notSysVars>>

SysNext ==
    \/ \E package_type \in PackageTypes : SysSetMode(package_type)
    \/ \E package_mode_arg \in {None} \cup PackageTypes :
           GetSysDeps(package_mode_arg)

----------------------------------------------------------------------------
(* The App descriptor *)

\* None in a field whose other values are recipe or package names
NoName == "None"

\* Recipe.libraries()
recipe_libraries(recipe) == files_list_by_categories(recipe, <<LIBS_CAT>>)

\* Recipe.files_list(): the files of every category
recipe_files_list(recipe) == files_list_by_categories(recipe, Categories)

\* cookbook.list_recipe_deps(recipe_name): the recipes the recipe depends on,
\* the recipe itself last
list_recipe_deps(recipe_name) ==
    IF recipe_name = "recipeB" THEN <<"recipeA", "recipeB">>
    ELSE <<recipe_name>>

\* store.get_package_deps(package): the packages its deps name
get_package_deps(st, name) == st[name].deps

RECURSIVE packages_deps_loop(_, _, _)
\* for package in packages_deps: packages_deps.extend(get_package_deps(...)):
\* the list grows while it is walked
packages_deps_loop(st, packages_deps, i) ==
    IF i > Len(packages_deps) THEN packages_deps
    ELSE packages_deps_loop(
             st, packages_deps \o get_package_deps(st, packages_deps[i]), i + 1)

\* the orders list(set(l)) can return
list_set_orders(l) ==
    {o \in [1..Cardinality(Elems(l)) -> Elems(l)] : Elems(o) = Elems(l)}

\* an App.recipes_dependencies that leaves the packages out when embed_deps
\* is false
app_recipes_dependencies_when_embedding(self) ==
    (IF self.embed_deps
     THEN Concat([i \in 1..Len(self.deps) |->
                     package_recipes_dependencies(self.store, self.deps[i])])
     ELSE <<>>)
    \o (IF self.app_recipe # NoName THEN <<self.app_recipe>> ELSE <<>>)

\* App.recipes_dependencies, before list(set(deps))
app_recipes_dependencies(self) ==
    Concat([i \in 1..Len(self.deps) |->
                package_recipes_dependencies(self.store, self.deps[i])])
    \o (IF self.app_recipe # NoName THEN <<self.app_recipe>> ELSE <<>>)

\* Package.files_list of a package of the store, after its load_files
stored_files_list(st, name) ==
    files_list([_recipes_files |-> parse_entries(st[name]._files, <<>>)])

\* an App.files_list without list(set(packages_deps))
app_files_list_without_set(self) ==
    LET packages_deps == packages_deps_loop(self.store, self.deps, 1)
        recipes == list_recipe_deps(self.app_recipe)
        embedded ==
            Concat([i \in 1..Len(packages_deps) |->
                        stored_files_list(self.store, packages_deps[i])])
            \o Concat([i \in 1..Len(recipes) |-> recipe_libraries(recipes[i])])
    IN sorted((IF self.embed_deps THEN embedded ELSE <<>>)
              \o recipe_files_list(self.app_recipe))

\* App.files_list.  list(set(packages_deps)) keeps one of each package in an
\* order of its own; the final sort makes the result the same for every order.
app_files_list(self) ==
    LET packages_deps ==
            remove_list_duplicates(packages_deps_loop(self.store, self.deps, 1))
        recipes == list_recipe_deps(self.app_recipe)
        embedded ==
            Concat([i \in 1..Len(packages_deps) |->
                        stored_files_list(self.store, packages_deps[i])])
            \o Concat([i \in 1..Len(recipes) |-> recipe_libraries(recipes[i])])
    IN sorted((IF self.embed_deps THEN embedded ELSE <<>>)
              \o recipe_files_list(self.app_recipe))

\* App.devel_files_list
app_devel_files_list(self) == <<>>

\* App.all_files_list
app_all_files_list(self) == app_files_list(self)

\* what the package files of the App's store may declare
AppStoredFiles ==
    { << <<"recipeA">> >>,
      << <<"recipeA", ":", "libs">>, <<"recipeB", ":", "tools">> >> }

\* the deps of an App package file: [] when it declares none
AppDeps == {<<>>, <<"base">>, <<"codecs", "base">>, <<"core", "core">>}

\* no operation of the App has returned yet
NoAppResult == [of |-> "nobody", value |-> <<>>]

\* App.__init__ over a store whose deps name later packages only
AppInit ==
    /\ app \in [deps : AppDeps, app_recipe : {NoName, "recipeB"},
                 embed_deps : BOOLEAN,
                 store : [PackageNames ->
                             [_files : AppStoredFiles, _files_devel : {<<>>},
                              deps : {<<>>, <<"core">>}]]]
    /\ app.store["core"].deps = <<>>
    /\ app_result = NoAppResult

AppIdle ==
    /\ app = None
    /\ app_result = None

\* App.recipes_dependencies: list(set(deps)) returns the names in some order
AppRecipesDependencies ==
    /\ \E o \in list_set_orders(app_recipes_dependencies(app)) :
           app_result' = [of |-> "recipes_dependencies", value |-> o]
    /\ UNCHANGED <<app, notAppVars>>

\* App.files_list of an App that has an application recipe
AppFilesList ==
    /\ app.app_recipe # NoName
    /\ app_result' = [of |-> "files_list", value |-> app_files_list(app)]
    /\ UNCHANGED <<app, notAppVars>>

\* App.devel_files_list
AppDevelFilesList ==
    /\ app_result' = [of |-> "devel_files_list",
                      value |-> app_devel_files_list(app)]
    /\ UNCHANGED <<app, notAppVars>>

\* App.all_files_list of an App that has an application recipe
AppAllFilesList ==
    /\ app.app_recipe # NoName
    /\ app_result' = [of |-> "all_files_list",
                      value |-> app_all_files_list(app)]
    /\ UNCHANGED <<app, notAppVars>>

AppNext ==
    \/ AppRecipesDependencies
    \/ AppFilesList
    \/ AppDevelFilesList
    \/ AppAllFilesList

----------------------------------------------------------------------------
(* InstallerPackage and AppExtensionPackage *)

\* config.target_arch
target_arch == <<"x86_64">>

\* MetaPackage.get_wix_registry_key: 'Software\\%s\\%s' % (name, arch)
meta_get_wix_registry_key(self) ==
    <<"Software", "\\">> \o getattribute(self, "name") \o <<"\\">>
        \o target_arch

\* App.get_wix_registry_key: 'Software\\%s\\%s\\%s' % (name, app_version, arch)
app_get_wix_registry_key(self) ==
    <<"Software", "\\">> \o getattribute(self, "name") \o <<"\\">>
        \o self.app_version \o <<"\\">> \o target_arch

\* get_wix_registry_key() of a descriptor of the store, by its class
get_wix_registry_key(package_) ==
    IF package_.class = "App" THEN app_get_wix_registry_key(package_)
    ELSE meta_get_wix_registry_key(package_)

\* store.get_package(name): a name of the store, or None
get_package(st, name) == IF name \in DOMAIN st THEN name ELSE NoName

\* what an operation leaves: how it ended, what it returned, which names it
\* asked the store for, and the _app it cached
Returned(value, queried, _app) ==
    [raised |-> "no", value |-> value, queried |-> queried, _app |-> _app]
Raised(error, queried, _app) ==
    [raised |-> error, value |-> <<>>, queried |-> queried, _app |-> _app]

\* an InstallerPackage.get_wix_registry_key without the test of sdk_package
installer_get_wix_registry_key_unchecked(self) ==
    LET sdk_package == get_package(self.store, self.sdk_package)
    IN IF sdk_package = NoName
       THEN Raised("AttributeError", {self.sdk_package}, self._app)
       ELSE Returned(get_wix_registry_key(self.store[sdk_package]),
                     {self.sdk_package}, self._app)

\* InstallerPackage.get_wix_registry_key
installer_get_wix_registry_key(self) ==
    IF self.sdk_package = NoName
    THEN Raised("FatalError", {}, self._app)
    ELSE LET sdk_package == get_package(self.store, self.sdk_package)
         IN IF sdk_package = NoName   \* None.get_wix_registry_key
            THEN Raised("AttributeError", {self.sdk_package}, self._app)
            ELSE Returned(get_wix_registry_key(self.store[sdk_package]),
                          {self.sdk_package}, self._app)

\* AppExtensionPackage._fetch_app: the _app it leaves and the names it asked
fetch_app(self) ==
    IF self._app = NoName
    THEN [_app |-> get_package(self.store, self.app_package),
          queried |-> {self.app_package}]
    ELSE [_app |-> self._app, queried |-> {}]

\* AppExtensionPackage.get_wix_registry_key
extension_get_wix_registry_key(self) ==
    IF self.app_package = NoName
    THEN Raised("FatalError", {}, self._app)
    ELSE LET f == fetch_app(self)
         IN IF f._app = NoName   \* None.get_wix_registry_key
            THEN Raised("AttributeError", f.queried, f._app)
            ELSE Returned(get_wix_registry_key(self.store[f._app]),
                          f.queried, f._app)

\* AppExtensionPackage.get_app_dep: the package it returns, by its name
get_app_dep(self) ==
    LET f == fetch_app(self)
    IN Returned(IF f._app = NoName THEN None ELSE <<f._app>>, f.queried, f._app)

\* AppExtensionPackage.recipes_dependencies
extension_recipes_dependencies(self) ==
    Returned(recipe_names(self.files), {}, self._app)

\* the two classes and the names their links may hold
LinkClasses == {"InstallerPackage", "AppExtensionPackage"}
LinkNames == {NoName, "sdk", "app", "gone"}

\* the descriptors of the store: an SDK meta-package and an App
LinkStores ==
    [sdk : [class : {"SDKPackage"}, name : Names,
            package_mode : PackageTypes],
     app : [class : {"App"}, name : {<<"player">>}, app_version : {<<"1.0">>},
            package_mode : PackageTypes]]

\* no operation yet
NoOperation == [op |-> "none", raised |-> "no", value |-> <<>>, queried |-> {}]

\* InstallerPackage.__init__ or AppExtensionPackage.__init__
LinkInit ==
    /\ link \in [class : LinkClasses, sdk_package : LinkNames,
                  app_package : LinkNames, _app : {NoName},
                  files : {<< <<"recipeA", ":", "libs">> >>},
                  store : LinkStores]
    /\ link.class = "InstallerPackage" => link.app_package = NoName
    /\ link.class = "AppExtensionPackage" => link.sdk_package = NoName
    /\ link_result = NoOperation

LinkIdle ==
    /\ link = None
    /\ link_result = None

\* the operation has run: its outcome is recorded, its _app is kept
Ran(op, r) ==
    /\ link_result' = [op |-> op, raised |-> r.raised, value |-> r.value,
                       queried |-> r.queried]
    /\ link' = [link EXCEPT !._app = r._app]
    /\ UNCHANGED notLinkVars

\* get_wix_registry_key of the descriptor, by its class
LinkGetWixRegistryKey ==
    /\ link.class \in LinkClasses
    /\ Ran("get_wix_registry_key",
           IF link.class = "InstallerPackage"
           THEN installer_get_wix_registry_key(link)
           ELSE extension_get_wix_registry_key(link))

\* AppExtensionPackage.get_app_dep
LinkGetAppDep ==
    /\ link.class = "AppExtensionPackage"
    /\ Ran("get_app_dep", get_app_dep(link))

\* AppExtensionPackage.recipes_dependencies
LinkRecipesDependencies ==
    /\ link.class = "AppExtensionPackage"
    /\ Ran("recipes_dependencies", extension_recipes_dependencies(link))

LinkNext ==
    \/ LinkGetWixRegistryKey
    \/ LinkGetAppDep
    \/ LinkRecipesDependencies

----------------------------------------------------------------------------
(* The packaging pipeline *)

\* the stages of a packaging run, in the order pack() calls them
Stages == <<"create_tree", "setup_source", "prepare", "build">>

\* the place of a stage in that order
StageIndex(stage) == CHOOSE i \in 1..Len(Stages) : Stages[i] = stage

\* pack(): the stage it calls next, after the events so far.  A stage that
\* raised ends the call; a stage that has not returned is still running.
pack_next(log) ==
    IF log = <<>> THEN Stages[1]
    ELSE IF Last(log)[2] = "completed"
            /\ StageIndex(Last(log)[1]) < Len(Stages)
    THEN Stages[StageIndex(Last(log)[1]) + 1]
    ELSE "none"

\* RPMPackager.create_tree(None): the root mkdtemp made
create_tree_stage == <<"/h/tmpA">>

\* RPMPackager.setup_source: the path-traversal error of safe_extract, or the
\* tarname
setup_source_stage(members, tmpdir) ==
    IF safe_extract(members, path_join(tmpdir, <<"SOURCES">>)).raised
    THEN "raised" ELSE "completed"

\* a prepare that renders the document and does not write it
prepare_stage_without_spec_path(name, tmpdir) == None

\* RPMPackager.prepare: the spec_path it sets and writes _spec_str to
prepare_stage(name, tmpdir) == path_join(tmpdir, name \o <<".spec">>)

\* Architecture.X86 and Architecture.X86_64, and one more architecture
Architectures == {"x86", "x86_64", "arm"}

\* a table that falls back to the 64-bit triple
build_target_defaulting(arch) ==
    IF arch = "x86" THEN <<"i686-redhat-linux">>
    ELSE <<"x86_64-redhat-linux">>

\* RPMPackager.build: the --target of rpmbuild, or the fatal error
build_target(arch) ==
    IF arch = "x86" THEN <<"i686-redhat-linux">>
    ELSE IF arch = "x86_64" THEN <<"x86_64-redhat-linux">>
    ELSE <<"FatalError">>

\* RPMPackager.build: rpmbuild reads self.spec_path
build_stage(arch, spec_path) ==
    IF build_target(arch) = <<"FatalError">> \/ spec_path = None
    THEN "raised" ELSE "completed"

\* RPMPackager.__init__ and the tarball given to the run
PipeInit ==
    /\ pipe \in [members : SeqUpTo(MemberNames, MaxMembers),
                  target_arch : Architectures,
                  name : {<<"pkg">>},
                  tmpdir : {None}, spec_path : {None}, log : {<<>>}]

PipeIdle ==
    /\ pipe = None

\* a stage has started and has not returned
Running(stage) ==
    pipe.log # <<>> /\ Last(pipe.log) = <<stage, "started">>

\* pack() calls its next stage
PackCalls(stage) ==
    /\ pack_next(pipe.log) = stage
    /\ pipe' = [pipe EXCEPT !.log = Append(@, <<stage, "started">>)]
    /\ UNCHANGED notPipeVars

\* create_tree returns
PipeCreateTree ==
    /\ Running("create_tree")
    /\ pipe' = [pipe EXCEPT !.tmpdir = create_tree_stage,
                            !.log = Append(@, <<"create_tree", "completed">>)]
    /\ UNCHANGED notPipeVars

\* setup_source returns or raises
PipeSetupSource ==
    /\ Running("setup_source")
    /\ pipe' = [pipe EXCEPT
                  !.log = Append(@, <<"setup_source",
                                      setup_source_stage(pipe.members,
                                                         pipe.tmpdir)>>)]
    /\ UNCHANGED notPipeVars

\* prepare returns
PipePrepare ==
    /\ Running("prepare")
    /\ pipe' = [pipe EXCEPT
                  !.spec_path = prepare_stage(pipe.name, pipe.tmpdir),
                  !.log = Append(@, <<"prepare", "completed">>)]
    /\ UNCHANGED notPipeVars

\* build returns or raises
PipeBuild ==
    /\ Running("build")
    /\ pipe' = [pipe EXCEPT
                  !.log = Append(@, <<"build",
                                      build_stage(pipe.target_arch,
                                                  pipe.spec_path)>>)]
    /\ UNCHANGED notPipeVars

PipeNext ==
    \/ \E stage \in Elems(Stages) : PackCalls(stage)
    \/ PipeCreateTree
    \/ PipeSetupSource
    \/ PipePrepare
    \/ PipeBuild

----------------------------------------------------------------------------
(* run_until_complete *)

\* the most tasks of the outer batch and of a nested batch, and the largest
\* max_concurrent, in the model
MaxTasks == 3
MaxNested == 2
MaxConcurrent == 2

\* the batch given to the call made from the main thread, and the batch one of
\* its tasks gives to a call made while the loop runs
Batches == {"outer", "nested"}

\* the threads and the event loops asyncio can hand out
Threads == {"main", "worker"}
LoopIds == {"L1", "L2"}

\* the loop set as the current loop of a thread; "none" stands for the
\* RuntimeError of asyncio.get_event_loop
current_loop(ls, thread) ==
    IF \E l \in LoopIds : ls[l].thread = thread
    THEN CHOOSE l \in LoopIds : ls[l].thread = thread
    ELSE "none"

\* utils.get_event_loop in a thread: the loop it returns, and the loops after
\* new_event_loop and set_event_loop
get_event_loop(ls, thread) ==
    IF current_loop(ls, thread) # "none"
    THEN [loop |-> current_loop(ls, thread), loops |-> ls]
    ELSE LET l == CHOOSE l \in LoopIds : ls[l].thread = "none"
         IN [loop |-> l, loops |-> [ls EXCEPT ![l].thread = thread]]

\* a run_until_complete that never starts a thread
delegates_never(loop_is_running) == FALSE

\* run_until_complete: 'if loop.is_running()' starts a thread for the batch
delegates(loop_is_running) == loop_is_running

\* a semaphore that admits every worker
locked_never(value) == FALSE

\* asyncio.Semaphore.locked: 'async with semaphore' waits while it is true
locked(value) == value = 0

\* asyncio.Semaphore(max_concurrent)
Semaphore(max_concurrent) == max_concurrent

\* a task that is not part of the batch
Absent == [state |-> "absent", loop |-> "none"]

\* a coroutine that has not been awaited
Pending == [state |-> "pending", loop |-> "none"]

\* the tasks and max_concurrent of the two calls; asyncio has made a loop for
\* the main thread, no call has been made
LoopInit ==
    /\ calls \in [Batches -> [pc : {"idle"}, n : 1..MaxTasks,
                               max_concurrent : 1..MaxConcurrent,
                               thread : {"none"}, loop : {"none"}]]
    /\ calls["nested"].n <= MaxNested
    /\ tasks = [b \in Batches |->
                  [i \in 1..MaxTasks |->
                      IF i <= calls[b].n THEN Pending ELSE Absent]]
    /\ sem = [b \in Batches |-> 0]
    /\ loops = [l \in LoopIds |->
                  [running |-> FALSE,
                   thread |-> IF l = "L1" THEN "main" ELSE "none"]]

LoopIdle ==
    /\ loops = None
    /\ tasks = None
    /\ sem = None
    /\ calls = None

\* the main thread waits in thread.join()
Joining == calls["nested"].pc \in {"joining", "running", "thread done"}

\* the thread that runs the loop of a batch can take a step
CanStep(b) == calls[b].pc = "running" /\ (b = "outer" => ~Joining)

\* run_until_complete(tasks, max_concurrent) in a thread whose loop is not
\* running: the semaphore is made and the loop runs gather(*worker_tasks)
RunBatch(b, thread) ==
    LET got == get_event_loop(loops, thread)
    IN /\ ~delegates(got.loops[got.loop].running)
       /\ loops' = [got.loops EXCEPT ![got.loop].running = TRUE]
       /\ sem' = [sem EXCEPT ![b] = Semaphore(calls[b].max_concurrent)]
       /\ calls' = [calls EXCEPT ![b].pc = "running", ![b].thread = thread,
                                 ![b].loop = got.loop]
       /\ UNCHANGED <<tasks, notLoopVars>>

\* the call made from the main thread
Call ==
    /\ calls["outer"].pc = "idle"
    /\ RunBatch("outer", "main")

\* a task of the outer batch calls run_until_complete while the loop runs it:
\* the loop is running, so a thread is started and the caller joins it; a
\* loop asked to run while it is running raises RuntimeError
NestedCall(i) ==
    LET got == get_event_loop(loops, "main")
    IN /\ CanStep("outer")
       /\ tasks["outer"][i].state = "in_flight"
       /\ calls["nested"].pc = "idle"
       /\ IF delegates(got.loops[got.loop].running)
          THEN calls' = [calls EXCEPT !["nested"].pc = "joining"]
          ELSE calls' = [calls EXCEPT !["nested"].pc = "RuntimeError",
                                      !["nested"].thread = "main",
                                      !["nested"].loop = got.loop]
       /\ UNCHANGED <<loops, tasks, sem, notLoopVars>>

\* the thread runs its target, run_until_complete(tasks, max_concurrent)
ThreadRuns ==
    /\ calls["nested"].pc = "joining"
    /\ RunBatch("nested", "worker")

\* a worker enters 'async with semaphore' and awaits its task
Admit(b, i) ==
    /\ CanStep(b)
    /\ tasks[b][i].state = "pending"
    /\ ~locked(sem[b])
    /\ sem' = [sem EXCEPT ![b] = @ - 1]
    /\ tasks' = [tasks EXCEPT ![b][i] = [state |-> "in_flight",
                                         loop |-> calls[b].loop]]
    /\ UNCHANGED <<loops, calls, notLoopVars>>

\* a task finishes and its worker leaves 'async with semaphore'
Finish(b, i) ==
    /\ CanStep(b)
    /\ tasks[b][i].state = "in_flight"
    /\ sem' = [sem EXCEPT ![b] = @ + 1]
    /\ tasks' = [tasks EXCEPT ![b][i].state = "finished"]
    /\ UNCHANGED <<loops, calls, notLoopVars>>

\* every worker is done: loop.run_until_complete(gather(...)) returns
GatherReturns(b) ==
    /\ CanStep(b)
    /\ \A i \in 1..MaxTasks : tasks[b][i].state \in {"absent", "finished"}
    /\ loops' = [loops EXCEPT ![calls[b].loop].running = FALSE]
    /\ calls' = [calls EXCEPT
                   ![b].pc = IF b = "outer" THEN "returned" ELSE "thread done"]
    /\ UNCHANGED <<tasks, sem, notLoopVars>>

\* thread.join() returns in the caller
Join ==
    /\ calls["nested"].pc = "thread done"
    /\ calls' = [calls EXCEPT !["nested"].pc = "returned"]
    /\ UNCHANGED <<loops, tasks, sem, notLoopVars>>

LoopNext ==
    \/ Call
    \/ \E i \in 1..MaxTasks : NestedCall(i)
    \/ ThreadRuns
    \/ \E b \in Batches, i \in 1..MaxTasks : Admit(b, i)
    \/ \E b \in Batches, i \in 1..MaxTasks : Finish(b, i)
    \/ \E b \in Batches : GatherReturns(b)
    \/ Join

----------------------------------------------------------------------------
(* run_until_complete: what the call returns *)

\* the longest collection of tasks handed to one call
MaxBatch == 2

\* what a task can evaluate to
Results == {"r1", "r2"}

\* how a task ends: with a result, cancelled, or with another exception
TaskEnds ==
    [end : {"result"}, value : Results]
        \cup [end : {"cancelled", "error"}, value : {"None"}]

\* the tasks argument: one awaitable, or an iterable of them
TaskArgs ==
    [iterable : {FALSE}, ends : [1..1 -> TaskEnds]]
        \cup UNION {[iterable : {TRUE}, ends : [1..n -> TaskEnds]] :
                       n \in 0..MaxBatch}

\* Python values a call can hand back
PyNone == [tag |-> "None", items |-> <<>>]
PyValue(v) == [tag |-> "value", items |-> <<v>>]
PyList(s) == [tag |-> "list", items |-> s]

Return(v) == [raised |-> "no", value |-> v]
Raise(e) == [raised |-> e, value |-> PyNone]
RaiseOf(task) ==
    Raise(IF task.end = "cancelled" THEN "CancelledError" ELSE "Exception")

\* `not tasks`: an empty collection is falsy, an awaitable never is
not_tasks(the_tasks) == the_tasks.iterable /\ Len(the_tasks.ends) = 0

\* the tasks that do not end with a result
Failing(ends) == {i \in 1..Len(ends) : ends[i].end # "result"}

\* which failure reaches the gathering future first: any of them, by the
\* order the loop finishes the tasks in; 0 when every task has a result
FirstFailures(ends) == IF Failing(ends) = {} THEN {0} ELSE Failing(ends)

\* _worker: awaits the task under the semaphore and returns nothing
worker(task) ==
    IF task.end = "result" THEN [end |-> "result", value |-> "None"] ELSE task

\* loop.run_until_complete(asyncio.gather(*aws)): the list of the results
\* in the order of aws, or the first exception; a cancelled awaitable
\* counts as one that raised CancelledError
gather(ends, first) ==
    IF first = 0
    THEN Return(PyList([i \in 1..Len(ends) |-> ends[i].value]))
    ELSE RaiseOf(ends[first])

\* loop.run_until_complete(task) of one awaitable
loop_run_until_complete(task) ==
    IF task.end = "result" THEN Return(PyValue(task.value)) ELSE RaiseOf(task)

\* the body of the try statement
try_body(the_tasks, max_concurrent, first) ==
    IF the_tasks.iterable
    THEN IF max_concurrent = 0
         THEN gather(the_tasks.ends, first)
         ELSE gather([i \in 1..Len(the_tasks.ends) |->
                          worker(the_tasks.ends[i])], first)
    ELSE loop_run_until_complete(the_tasks.ends[1])

except_cancelled_never(outcome) == outcome
\* except asyncio.CancelledError: return None
except_cancelled(outcome) ==
    IF outcome.raised = "CancelledError" THEN Return(PyNone) ELSE outcome

\* thread.start(); return thread.join(): join() returns None whatever the
\* target returned or raised in its thread
thread_join(target_outcome) == Return(PyNone)

\* run_until_complete(tasks, max_concurrent), on a thread whose loop is
\* running or not
run_until_complete(the_tasks, max_concurrent, running, first) ==
    IF not_tasks(the_tasks) THEN Return(PyNone)
    ELSE IF running
         THEN thread_join(except_cancelled(
                              try_body(the_tasks, max_concurrent, first)))
         ELSE except_cancelled(try_body(the_tasks, max_concurrent, first))

NotReturned == [raised |-> "no", value |-> [tag |-> "unset", items |-> <<>>]]

\* a caller about to call, with its arguments and its loop's state
RucInit ==
    /\ ruc \in [pc : {"calling"}, tasks : TaskArgs,
                 max_concurrent : 0..MaxConcurrent, running : BOOLEAN,
                 first : {0}, out : {NotReturned}]

RucIdle ==
    /\ ruc = None

Returns(first) ==
    /\ ruc' = [ruc EXCEPT !.pc = "returned", !.first = first,
                          !.out = run_until_complete(ruc.tasks,
                                      ruc.max_concurrent, ruc.running, first)]
    /\ UNCHANGED notRucVars

\* the call from a thread whose loop is not running
RucCall ==
    /\ ruc.pc = "calling"
    /\ ~ruc.running
    /\ \E first \in FirstFailures(ruc.tasks.ends) : Returns(first)

\* the call from inside a task of a running loop
RucNestedCall ==
    /\ ruc.pc = "calling"
    /\ ruc.running
    /\ \E first \in FirstFailures(ruc.tasks.ends) : Returns(first)

RucNext ==
    \/ RucCall
    \/ RucNestedCall

----------------------------------------------------------------------------
(* The package command *)

\* the packages of the store the command loads, with what their
\* recipes_dependencies() returns
CmdStore == [core |-> <<"recipeA", "recipeB">>]

\* the names a user can ask for: one of the store, one that is not
CmdNames == {"core", "ghost"}

\* the command line: the package name and which options are given
CommandLines ==
    [package : CmdNames, t : BOOLEAN, f : BOOLEAN, d : BOOLEAN, s : BOOLEAN,
     b : BOOLEAN, k : BOOLEAN]

\* argparse actions: the value an option gets when given, else its default
store_true(given, default) == IF given THEN TRUE ELSE default
store_false(given, default) == IF given THEN FALSE ELSE default

\* the namespace argparse builds from the command line
parse_args(argv) ==
    [package |-> <<argv.package>>,
     tarball |-> store_true(argv.t, FALSE),
     force |-> store_true(argv.f, FALSE),
     no_devel |-> store_false(argv.d, FALSE),
     skip_deps_build |-> store_true(argv.s, FALSE),
     only_build_deps |-> store_true(argv.b, FALSE),
     keep_temp |-> store_true(argv.k, FALSE)]

NotPacked == [devel |-> FALSE, force |-> FALSE, keep_temp |-> FALSE]
NotRun ==
    [raised |-> "no", built |-> <<>>, packager |-> "none", packed |-> 0,
     pack |-> NotPacked]

\* _build_deps(config, package): the recipes handed to the build command,
\* or the AttributeError of None.recipes_dependencies()
build_deps(st, p) ==
    IF p = NoName
    THEN [NotRun EXCEPT !.raised = "AttributeError"]
    ELSE [NotRun EXCEPT !.built = <<st[p]>>]

\* the rest of run() once the dependencies are dealt with
run_after_deps(p, args, done) ==
    IF args.only_build_deps THEN done
    ELSE IF p = NoName
         THEN [done EXCEPT !.raised = "PackageNotFoundError"]
         ELSE [done EXCEPT
                 !.packager = IF args.tarball THEN "DistTarball"
                              ELSE "Packager",
                 !.packed = 1,
                 !.pack = [devel |-> ~args.no_devel, force |-> args.force,
                           keep_temp |-> args.keep_temp]]

\* Package.run(config, args), up to the call of pack()
package_run(st, args) ==
    LET p == get_package(st, args.package[1])
    IN  IF args.skip_deps_build /\ args.only_build_deps
        THEN [NotRun EXCEPT !.raised = "UsageError"]
        ELSE IF ~args.skip_deps_build
             THEN LET deps == build_deps(st, p)
                  IN  IF deps.raised # "no" THEN deps
                      ELSE run_after_deps(p, args, deps)
             ELSE run_after_deps(p, args, NotRun)

\* the command line as the user typed it
CmdInit ==
    /\ cmd \in [pc : {"argv"}, argv : CommandLines,
                 args : {parse_args([package |-> "core", t |-> FALSE,
                                     f |-> FALSE, d |-> FALSE, s |-> FALSE,
                                     b |-> FALSE, k |-> FALSE])},
                 out : {NotRun}]

CmdIdle ==
    /\ cmd = None

\* the command's parser reads the command line
CmdParseArgs ==
    /\ cmd.pc = "argv"
    /\ cmd' = [cmd EXCEPT !.pc = "parsed", !.args = parse_args(cmd.argv)]
    /\ UNCHANGED notCmdVars

\* Package.run
CmdRun ==
    /\ cmd.pc = "parsed"
    /\ cmd' = [cmd EXCEPT !.pc = "done",
                          !.out = package_run(CmdStore, cmd.args)]
    /\ UNCHANGED notCmdVars

CmdNext ==
    \/ CmdParseArgs
    \/ CmdRun

----------------------------------------------------------------------------
(* Package: the license maps *)

\* the licenses of the cookbook's recipes: of the recipe, and per category
recipe_licenses == [recipeA |-> "LGPLv2_1Plus", recipeB |-> "BSD"]
category_licenses ==
    [recipeA |-> [libs |-> "LGPLv2_1Plus", tools |-> "GPLv2Plus",
                  devel |-> "LGPLv2_1Plus"],
     recipeB |-> [libs |-> "BSD", tools |-> "GPLv3Plus", devel |-> "BSD"]]

\* Recipe.list_licenses_by_categories(categories): {category: licenses} for
\* the categories asked for, {None: recipe licenses} when none is asked for
list_licenses_by_categories(recipe, categories) ==
    IF categories = <<>> THEN [k \in {"None"} |-> recipe_licenses[recipe]]
    ELSE [k \in Elems(categories) |-> category_licenses[recipe][k]]

\* a.update(b) on dicts
dict_update(a, b) ==
    [k \in DOMAIN a \cup DOMAIN b |-> IF k \in DOMAIN b THEN b[k] ELSE a[k]]

\* key in d, and d[key], on a dict kept as a sequence of <<key, value>>
dict_has(d, key) == \E i \in 1..Len(d) : d[i][1] = key
dict_at(d, key) == d[CHOOSE i \in 1..Len(d) : d[i][1] = key][2]

RECURSIVE list_licenses(_, _)
\* Package._list_licenses, from the dict built so far
list_licenses(recipes_files, licenses) ==
    IF recipes_files = <<>> THEN licenses
    ELSE LET recipe_name == Head(recipes_files)[1]
             categories == Head(recipes_files)[2]
         IN list_licenses(Tail(recipes_files),
                dict_set(licenses, recipe_name,
                         list_licenses_by_categories(recipe_name, categories)))

\* Package.recipes_licenses
recipes_licenses(self) == list_licenses(self._recipes_files, <<>>)

RECURSIVE merge_runtime_licenses(_, _)
\* the loop of Package.devel_recipes_licenses over the runtime map
merge_runtime_licenses(recipes_files, licenses) ==
    IF recipes_files = <<>> THEN licenses
    ELSE LET recipe_name == Head(recipes_files)[1]
             categories == Head(recipes_files)[2]
             added == list_licenses_by_categories(recipe_name, categories)
         IN merge_runtime_licenses(Tail(recipes_files),
                IF Len(categories) = 0 \/ LIBS_CAT \in Elems(categories)
                THEN IF dict_has(licenses, recipe_name)
                     THEN dict_set(licenses, recipe_name,
                              dict_update(dict_at(licenses, recipe_name),
                                          added))
                     ELSE dict_set(licenses, recipe_name, added)
                ELSE licenses)

\* Package.devel_recipes_licenses
devel_recipes_licenses(self) ==
    merge_runtime_licenses(self._recipes_files,
                           list_licenses(self._recipes_files_devel, <<>>))

\* a package whose load_files has run
LicInit ==
    /\ \E d \in [files : SeqUpTo(FileEntries, MaxFiles),
                  files_devel : SeqUpTo(DevelEntries, MaxDevelFiles),
                  platform_files : PlatformFiles,
                  platform_files_devel : PlatformFilesDevel] :
           lic = [self |-> load_files(d), runtime |-> Unread,
                  devel |-> Unread]

LicIdle ==
    /\ lic = None

\* Package.recipes_licenses
RecipesLicenses ==
    /\ lic.runtime = Unread
    /\ lic' = [lic EXCEPT !.runtime = recipes_licenses(lic.self)]
    /\ UNCHANGED notLicVars

\* Package.devel_recipes_licenses
DevelRecipesLicenses ==
    /\ lic.devel = Unread
    /\ lic' = [lic EXCEPT !.devel = devel_recipes_licenses(lic.self)]
    /\ UNCHANGED notLicVars

LicNext ==
    \/ RecipesLicenses
    \/ DevelRecipesLicenses

----------------------------------------------------------------------------
(* The dependency walks over a store that may have cycles *)

\* the frames the interpreter allows before it raises RecursionError
\* (sys.getrecursionlimit(), far larger in the interpreter)
RecursionLimit == 4

\* the longest list the expansion loop of App.files_list is followed to
MaxExpansion == 6

\* the most names in the deps of a package of this store
MaxDeps == 2

\* a store whose deps may name any package, the package itself included
RecNames == {"a", "b"}
RecFiles == [a |-> << <<"recipeA">> >>, b |-> << <<"recipeC", ":", "libs">> >>]
RecFilesDevel == [a |-> << <<"recipeB", ":", "devel">> >>, b |-> <<>>]
RecStores ==
    {[n \in RecNames |-> [_files |-> RecFiles[n],
                          _files_devel |-> RecFilesDevel[n],
                          deps |-> d[n]]] :
         d \in [RecNames -> SeqUpTo(RecNames, MaxDeps)]}

\* the recipes of the package's own entries, devel entries first
own_recipes_devel_first(self) ==
    recipe_names(self._files_devel) \o recipe_names(self._files)
\* the first two statements of Package.recipes_dependencies
own_recipes(self) ==
    recipe_names(self._files) \o recipe_names(self._files_devel)

\* the frame of a call of recipes_dependencies on the package name
Frame(st, name) == [name |-> name, next |-> 1, deps |-> own_recipes(st[name])]

\* a call on the package root of the store
RecInit ==
    /\ rec \in [op : {"recipes_dependencies", "files_list"},
                 store : RecStores, root : RecNames, pc : {"called"},
                 stack : {<<>>}, packages_deps : {<<>>}, i : {1},
                 value : {<<>>}]

RecIdle ==
    /\ rec = None

Top == rec.stack[Len(rec.stack)]

\* the call enters the method
RecEnter ==
    /\ rec.pc = "called"
    /\ rec' = [rec EXCEPT
                 !.pc = "running",
                 !.stack = IF rec.op = "recipes_dependencies"
                           THEN <<Frame(rec.store, rec.root)>> ELSE <<>>,
                 !.packages_deps =
                     IF rec.op = "files_list"
                     THEN <<get_package(rec.store, rec.root)>> ELSE <<>>]
    /\ UNCHANGED notRecVars

\* p = self.store.get_package(name); p.recipes_dependencies() is entered
RecDescend ==
    /\ rec.pc = "running" /\ rec.op = "recipes_dependencies"
    /\ Top.next <= Len(rec.store[Top.name].deps)
    /\ Len(rec.stack) < RecursionLimit
    /\ rec' = [rec EXCEPT
                 !.stack = Append(rec.stack,
                     Frame(rec.store,
                           get_package(rec.store,
                               rec.store[Top.name].deps[Top.next])))]
    /\ UNCHANGED notRecVars

\* the interpreter refuses one more frame: RecursionError unwinds the calls
RecOverflow ==
    /\ rec.pc = "running" /\ rec.op = "recipes_dependencies"
    /\ Top.next <= Len(rec.store[Top.name].deps)
    /\ Len(rec.stack) >= RecursionLimit
    /\ rec' = [rec EXCEPT !.pc = "raised", !.stack = <<>>,
                          !.value = <<"RecursionError">>]
    /\ UNCHANGED notRecVars

\* return deps: the caller does deps += ..., the outermost call returns
RecReturn ==
    /\ rec.pc = "running" /\ rec.op = "recipes_dependencies"
    /\ Top.next > Len(rec.store[Top.name].deps)
    /\ LET n == Len(rec.stack) IN
       IF n = 1
       THEN rec' = [rec EXCEPT !.pc = "returned", !.stack = <<>>,
                              !.value = Top.deps]
       ELSE rec' = [rec EXCEPT
                      !.stack = [SubSeq(rec.stack, 1, n - 1) EXCEPT
                          ![n - 1].deps = rec.stack[n - 1].deps \o Top.deps,
                          ![n - 1].next = rec.stack[n - 1].next + 1]]
    /\ UNCHANGED notRecVars

\* one turn of 'for package in packages_deps: packages_deps.extend(...)'
RecExpand ==
    /\ rec.pc = "running" /\ rec.op = "files_list"
    /\ rec.i <= Len(rec.packages_deps)
    /\ Len(rec.packages_deps) < MaxExpansion
    /\ rec' = [rec EXCEPT
                 !.packages_deps =
                     rec.packages_deps
                         \o get_package_deps(rec.store,
                                             rec.packages_deps[rec.i]),
                 !.i = rec.i + 1]
    /\ UNCHANGED notRecVars

\* the loop has walked the whole list
RecExpanded ==
    /\ rec.pc = "running" /\ rec.op = "files_list"
    /\ rec.i > Len(rec.packages_deps)
    /\ rec' = [rec EXCEPT !.pc = "returned", !.value = rec.packages_deps]
    /\ UNCHANGED notRecVars

RecNext ==
    \/ RecEnter
    \/ RecDescend
    \/ RecOverflow
    \/ RecReturn
    \/ RecExpand
    \/ RecExpanded

----------------------------------------------------------------------------
(* RPMPackager.build *)

\* the packages rpmbuild can leave in packagedir, and the file names of
\* the output directory
Artifacts == {"pkg.rpm", "pkg-devel.rpm"}
OutputNames == Artifacts \cup {"notes.txt"}

\* the orders os.listdir can return the files of a directory in
listdir_orders(files) ==
    {o \in [1..Cardinality(files) -> files] : Elems(o) = files}

\* the message of the FatalError of an unsupported architecture
architecture_error(arch) == <<"Architecture ", arch, " not supported">>

\* the command line of rpmbuild
rpmbuild_command(extra_options, tmpdir, target, spec_path) ==
    <<"rpmbuild -bb ">> \o extra_options \o <<" --buildroot ">> \o tmpdir
        \o <<"/buildroot --target ">> \o target \o <<" ">> \o spec_path

RECURSIVE move_artifacts(_, _)
\* the loop over the files of packagedir: an artifact of the same name in
\* output_dir is removed, then the new one is moved there
move_artifacts(listed, done) ==
    IF listed = <<>> THEN done
    ELSE LET f == Head(listed)
             removed == IF f \in DOMAIN done.output_dir
                        THEN Append(done.log, <<"remove", f>>) ELSE done.log
         IN move_artifacts(Tail(listed),
                [done EXCEPT
                   !.output_dir = (f :> "new") @@ done.output_dir,
                   !.log = Append(removed, <<"move", f>>),
                   !.paths = Append(done.paths, f)])

\* RPMPackager.build: what it raises, the commands it runs, the output
\* directory it leaves, the paths it returns
build(self, listed) ==
    LET target == build_target(self.target_arch)
        extra_options == IF self.nodebuginfo THEN <<"--nodebuginfo">>
                         ELSE <<>>
        begun == [raised |-> <<>>, shell |-> <<>>,
                  output_dir |-> self.output_dir, log |-> <<>>,
                  paths |-> <<>>]
    IN IF target = <<"FatalError">>
       THEN [begun EXCEPT !.raised = architecture_error(self.target_arch)]
       ELSE move_artifacts(listed,
                [begun EXCEPT
                   !.shell = <<rpmbuild_command(extra_options, <<"/h/tmpA">>,
                                   target, <<"/h/tmpA/pkg.spec">>)>>])

NotBuilt ==
    [raised |-> <<>>, shell |-> <<>>, output_dir |-> <<>>, log |-> <<>>,
     paths |-> <<>>]

\* a packager whose spec is written, and the output directory as it is
BldInit ==
    /\ \E names \in SUBSET OutputNames :
           bld \in [pc : {"prepared"}, target_arch : Architectures,
                    nodebuginfo : BOOLEAN,
                    output_dir : [names -> {"old"}],
                    out : {NotBuilt}]

BldIdle ==
    /\ bld = None

\* RPMPackager.build; rpmbuild leaves some packages in packagedir
BldBuild ==
    /\ bld.pc = "prepared"
    /\ \E produced \in SUBSET Artifacts :
       \E listed \in listdir_orders(produced) :
           bld' = [bld EXCEPT !.pc = "built", !.out = build(bld, listed)]
    /\ UNCHANGED notBldVars

BldNext == BldBuild

----------------------------------------------------------------------------
(* The specifications, one per component *)

FirstIdle == ModeIdle /\ TarIdle /\ FilesIdle /\ DepsIdle /\ RpmIdle

MidIdle ==
    PairIdle /\ SysIdle /\ AppIdle /\ LinkIdle /\ PipeIdle /\ LoopIdle

LastIdle == RucIdle /\ CmdIdle /\ LicIdle /\ RecIdle /\ BldIdle

LaterIdle == MidIdle /\ LastIdle

InitMode ==
    ModeInit /\ TarIdle /\ FilesIdle /\ DepsIdle /\ RpmIdle /\ LaterIdle

SpecMode == InitMode /\ [][ModeNext]_vars

InitTar ==
    TarInit /\ ModeIdle /\ FilesIdle /\ DepsIdle /\ RpmIdle /\ LaterIdle

SpecTar == InitTar /\ [][TarNext]_vars

InitFiles ==
    FilesInit /\ ModeIdle /\ TarIdle /\ DepsIdle /\ RpmIdle /\ LaterIdle

SpecFiles == InitFiles /\ [][FilesNext]_vars

InitDeps ==
    DepsInit /\ ModeIdle /\ TarIdle /\ FilesIdle /\ RpmIdle /\ LaterIdle

SpecDeps == InitDeps /\ [][DepsNext]_vars

InitRpm ==
    RpmInit /\ ModeIdle /\ TarIdle /\ FilesIdle /\ DepsIdle /\ LaterIdle

SpecRpm == InitRpm /\ [][RpmNext]_vars

InitPair ==
    PairInit /\ FirstIdle /\ SysIdle /\ AppIdle /\ LinkIdle /\ PipeIdle
        /\ LoopIdle /\ LastIdle

SpecPair == InitPair /\ [][PairNext]_vars

InitSys ==
    SysInit /\ FirstIdle /\ PairIdle /\ AppIdle /\ LinkIdle /\ PipeIdle
        /\ LoopIdle /\ LastIdle

SpecSys == InitSys /\ [][SysNext]_vars

InitApp ==
    AppInit /\ FirstIdle /\ PairIdle /\ SysIdle /\ LinkIdle /\ PipeIdle
        /\ LoopIdle /\ LastIdle

SpecApp == InitApp /\ [][AppNext]_vars

InitLink ==
    LinkInit /\ FirstIdle /\ PairIdle /\ SysIdle /\ AppIdle /\ PipeIdle
        /\ LoopIdle /\ LastIdle

SpecLink == InitLink /\ [][LinkNext]_vars

InitPipe ==
    PipeInit /\ FirstIdle /\ PairIdle /\ SysIdle /\ AppIdle /\ LinkIdle
        /\ LoopIdle /\ LastIdle

SpecPipe == InitPipe /\ [][PipeNext]_vars

InitLoop ==
    LoopInit /\ FirstIdle /\ PairIdle /\ SysIdle /\ AppIdle /\ LinkIdle
        /\ PipeIdle /\ LastIdle

SpecLoop == InitLoop /\ [][LoopNext]_vars

\* the event loop of a thread that is not blocked runs what is ready, and a
\* started thread runs: some step is taken while one is possible
InitRuc ==
    RucInit /\ FirstIdle /\ MidIdle
        /\ CmdIdle /\ LicIdle /\ RecIdle /\ BldIdle

SpecRuc == InitRuc /\ [][RucNext]_vars

InitCmd ==
    CmdInit /\ FirstIdle /\ MidIdle
        /\ RucIdle /\ LicIdle /\ RecIdle /\ BldIdle

SpecCmd == InitCmd /\ [][CmdNext]_vars

InitLic ==
    LicInit /\ FirstIdle /\ MidIdle
        /\ RucIdle /\ CmdIdle /\ RecIdle /\ BldIdle

SpecLic == InitLic /\ [][LicNext]_vars

InitBld ==
    BldInit /\ FirstIdle /\ MidIdle
        /\ RucIdle /\ CmdIdle /\ LicIdle /\ RecIdle

SpecBld == InitBld /\ [][BldNext]_vars

InitRec ==
    RecInit /\ FirstIdle /\ MidIdle
        /\ RucIdle /\ CmdIdle /\ LicIdle /\ BldIdle

SpecRec == InitRec /\ [][RecNext]_vars

\* a call that can take a step takes it
SpecRecFair == SpecRec /\ WF_vars(RecNext)

SpecLoopFair == SpecLoop /\ WF_vars(LoopNext)

----------------------------------------------------------------------------
(* Claims about the mode-dependent attributes *)

\* the three mode-dependent attributes
ModeAttrs == {"name", "shortdesc", "uuid"}

\* what the descriptor as constructed returns for an attribute in a mode
ReadOf(p, package_type, name) ==
    getattribute([p EXCEPT !.package_mode = package_type], name)

\* C1: after set_mode(DEVEL) and then set_mode(RUNTIME), and after any other
\* sequence of reads and mode switches that ends in RUNTIME mode, the reads of
\* name, shortdesc and uuid return what they returned in RUNTIME mode on the
\* descriptor as constructed (uuid = None included).
C1_RoundTrip ==
    package.package_mode = PackageType_RUNTIME =>
        \A name \in ModeAttrs :
            getattribute(package, name)
                = ReadOf(package0, PackageType_RUNTIME, name)

\* C1 witness: the last two calls were set_mode(DEVEL), set_mode(RUNTIME), on
\* a descriptor with uuid None, whose attributes were read in DEVEL mode
C1_Witness ==
    /\ last_modes = <<PackageType_DEVEL, PackageType_RUNTIME>>
    /\ package.package_mode = PackageType_RUNTIME
    /\ package.uuid = None
    /\ \A name \in ModeAttrs : seen[PackageType_DEVEL][name] # Unread

\* C9: set_mode changes package_mode only: the stored name, shortdesc, uuid and
\* resource field equal their initial values, and every value a read returned
\* in a mode is the value a read in that mode returns now.
C9_StoredUnchanged ==
    /\ \A name \in Attrs \cup {"file"} : package[name] = package0[name]
    /\ \A package_type \in PackageTypes : \A name \in Attrs :
           seen[package_type][name] # Unread =>
               seen[package_type][name] = ReadOf(package, package_type, name)

\* C9 witness: every attribute has been read in both modes and the mode was
\* switched to DEVEL and back
C9_Witness ==
    /\ last_modes = <<PackageType_DEVEL, PackageType_RUNTIME>>
    /\ package.resources_license # None
    /\ \A package_type \in PackageTypes : \A name \in Attrs :
           seen[package_type][name] # Unread

\* C10: a read of uuid returns the stored uuid in RUNTIME mode; in DEVEL mode
\* it returns None for None and otherwise the stored uuid with its first
\* character replaced: '0' by '1', '1' by '0', any other by '0'.
C10_UuidRead ==
    LET u == package0.uuid
        r == seen[PackageType_RUNTIME]["uuid"]
        d == seen[PackageType_DEVEL]["uuid"]
    IN /\ r # Unread => r = u
       /\ (d # Unread /\ u = None) => d = None
       /\ (d # Unread /\ u # None /\ u # <<>>) =>
              /\ Len(d) = Len(u)
              /\ \A i \in 2..Len(u) : d[i] = u[i]
              /\ u[1] = "0" => d[1] = "1"
              /\ u[1] = "1" => d[1] = "0"
              /\ u[1] \notin {"0", "1"} => d[1] = "0"

\* C10 witness: a uuid starting with '0' has been read in DEVEL mode
C10_Witness ==
    /\ package0.uuid # None /\ package0.uuid # <<>> /\ package0.uuid[1] = "0"
    /\ seen[PackageType_DEVEL]["uuid"] # Unread
    /\ seen[PackageType_RUNTIME]["uuid"] # Unread

----------------------------------------------------------------------------
(* Claims about the extraction *)

\* target is directory itself or lies underneath it
LiesWithin(directory, target) ==
    LET d == abspath(directory)
        t == abspath(target)
    IN t = d \/ startswith(t, d \o <<"/">>)

\* C5: setup_source extracts an archive only if every member's absolute
\* normalised path join(srcdir, name) is srcdir or lies underneath srcdir.
C5_ExtractsOnlyWithin ==
    tar_pc = "done" =>
        \A i \in 1..Len(archive) :
            LiesWithin(srcdir, path_join(srcdir, archive[i]))

\* C6: when setup_source rejects the archive, no member has been written,
\* wherever the offending member stands in the archive, and no later step of
\* setup_source has run.
C6_RejectWritesNothing ==
    tar_pc = "path traversal" => fs = {} /\ tar_steps = <<>>

\* C6 witness: an archive rejected for ../../etc/passwd standing after a
\* member that would have been written inside srcdir
C6_Witness ==
    /\ tar_pc = "path traversal"
    /\ archive = << <<"a">>,
                    <<".", ".", "/", ".", ".", "/", "etc", "/", "passwd">> >>

----------------------------------------------------------------------------
(* Claims about the resolution of the files *)

\* every file name of the cookbook
AllFiles == {FileOrder[i] : i \in 1..Len(FileOrder)}

\* how often f occurs in the list
Count(list, f) == Cardinality({i \in 1..Len(list) : list[i] = f})

\* the list is in ascending string order
IsSorted(list) ==
    \A i \in 1..(Len(list) - 1) : ~str_lt(list[i + 1], list[i])

\* how often f occurs in the lists contribution(1), ..., contribution(n)
CountIn(n, contribution(_), f) ==
    Cardinality({ij \in (1..n) \X (1..Len(FileOrder)) :
                     /\ ij[2] <= Len(contribution(ij[1]))
                     /\ contribution(ij[1])[ij[2]] = f})

----------------------------------------------------------------------------
(* Claims about recipes_dependencies *)

\* the place of the first occurrence of x in the list
FirstIndex(list, x) ==
    CHOOSE i \in 1..Len(list) :
        list[i] = x /\ \A j \in 1..(i - 1) : list[j] # x

\* the recipes_dependencies() of the children, one after the other, in the
\* order the store returned them
ChildrenDependencies ==
    Concat([i \in 1..Len(children) |->
                package_recipes_dependencies(store, children[i])])

\* C4: MetaPackage.recipes_dependencies() holds every recipe name of its
\* children's recipes_dependencies() exactly once, and no other, in the order
\* of the first occurrences in their concatenation in store order.
C4_MetaDependencies ==
    deps_result.of = "meta" =>
        LET all == ChildrenDependencies
            r == deps_result.value
        IN /\ Elems(r) = Elems(all)
           /\ \A i, j \in 1..Len(r) : i # j => r[i] # r[j]
           /\ \A i, j \in 1..Len(r) :
                  i < j => FirstIndex(all, r[i]) < FirstIndex(all, r[j])

\* C4 witness: two children whose dependencies share a recipe, the shared
\* recipe standing first and once in the result
C4_Witness ==
    /\ deps_result.of = "meta"
    /\ children = <<"base", "codecs">>
    /\ ChildrenDependencies
           = <<"recipeA", "recipeB", "recipeC", "recipeB", "recipeA">>
    /\ deps_result.value = <<"recipeA", "recipeB", "recipeC">>

----------------------------------------------------------------------------
(* Claims about the rendered spec document *)

\* the number of '%files devel' blocks of a spec document
DevelFilesBlocks(spec_str) == Count(spec_str, "%files devel \n")

\* C7 as stated: the rendered spec holds exactly one '%files devel' block
\* when the package's devel file list is not empty and none when it is empty.
C7_OneBlockIffDevelFiles ==
    \A r \in Runs :
        runs[r].pc = "prepared" =>
            DevelFilesBlocks(runs[r]._spec_str)
                = IF rpm_in.devel_files # <<>> THEN 1 ELSE 0

\* C7 as amended: for a package that is not built as a meta-package and with
\* devel enabled, the spec holds exactly one '%files devel' block when the
\* devel file list is not empty and none when it is empty; with devel disabled
\* it holds none; for a meta-package with devel enabled it holds exactly one,
\* whatever the devel file list.
C7_DevelFilesBlock ==
    \A r \in Runs :
        runs[r].pc = "prepared" =>
            DevelFilesBlocks(runs[r]._spec_str)
                = IF ~rpm_in.devel THEN 0
                  ELSE IF rpm_in.build_meta_package THEN 1
                  ELSE IF rpm_in.devel_files # <<>> THEN 1
                  ELSE 0

\* C7 witness: a spec rendered with devel enabled for a package with two devel
\* files, holding one block
C7_Witness ==
    \E r \in Runs :
        /\ runs[r].pc = "prepared"
        /\ rpm_in.devel /\ ~rpm_in.build_meta_package
        /\ Len(rpm_in.devel_files) = 2
        /\ DevelFilesBlocks(runs[r]._spec_str) = 1

\* both runs went through create_tree and prepare
BothPrepared == \A r \in Runs : runs[r].pc = "prepared"

----------------------------------------------------------------------------
(* Claims about two descriptors of one store *)

\* the stored uuid is a string
IsUuidString(u) == u # None

\* a string without its first character
Rest(u) == [i \in 1..(Len(u) - 1) |-> u[i + 1]]

\* C11 as stated: the DEVEL uuid is defined for every stored uuid string,
\* differs from the RUNTIME uuid of the same descriptor, and two different
\* base uuids never produce the same DEVEL uuid.
C11_Invertible ==
    /\ \A d \in Descriptors :
           LET u == descs[d].uuid
               du == reads[d][PackageType_DEVEL]["uuid"]
           IN (du # Unread /\ IsUuidString(u)) =>
                  (du # IndexError /\ du # u)
    /\ \A d, e \in Descriptors :
           LET du == reads[d][PackageType_DEVEL]["uuid"]
               eu == reads[e][PackageType_DEVEL]["uuid"]
           IN (/\ du # Unread /\ eu # Unread
               /\ IsUuidString(descs[d].uuid) /\ IsUuidString(descs[e].uuid)
               /\ descs[d].uuid # descs[e].uuid) => du # eu

\* C11 amended: the DEVEL uuid is defined for every non-empty stored uuid
\* string (the read raises IndexError on the empty string), it keeps the
\* length and every character but the first and differs from the RUNTIME
\* uuid; two non-empty base uuids produce the same DEVEL uuid exactly when
\* they agree after the first character and either both or neither start
\* with '0', so the base uuid is not recoverable from the DEVEL uuid.
C11_DevelUuid ==
    /\ \A d \in Descriptors :
           LET u == descs[d].uuid
               du == reads[d][PackageType_DEVEL]["uuid"]
           IN (du # Unread /\ IsUuidString(u)) =>
                  /\ (u = <<>>) <=> (du = IndexError)
                  /\ u # <<>> =>
                         /\ du # u
                         /\ Len(du) = Len(u)
                         /\ Rest(du) = Rest(u)
    /\ \A d, e \in Descriptors :
           LET u == descs[d].uuid
               v == descs[e].uuid
               du == reads[d][PackageType_DEVEL]["uuid"]
               eu == reads[e][PackageType_DEVEL]["uuid"]
           IN (/\ du # Unread /\ eu # Unread
               /\ IsUuidString(u) /\ IsUuidString(v)
               /\ u # <<>> /\ v # <<>>) =>
                  ((du = eu) <=> (/\ Rest(u) = Rest(v)
                                  /\ (u[1] = "0") <=> (v[1] = "0")))

\* C11 witness: two descriptors whose base uuids '1f' and 'af' differ and
\* whose uuids have both been read in DEVEL mode
C11_Witness ==
    /\ descs["p"].uuid = <<"1", "f">>
    /\ descs["q"].uuid = <<"a", "f">>
    /\ reads["p"][PackageType_DEVEL]["uuid"] = <<"0", "f">>
    /\ reads["q"][PackageType_DEVEL]["uuid"] = <<"0", "f">>

\* C12 as stated: a read of name returns the stored name followed by the
\* marker of the active mode, and for all descriptors p and q of the store
\* (p = q included) the name of p read in RUNTIME mode differs from the name
\* of q read in DEVEL mode.
C12_NeverCollide ==
    /\ \A d \in Descriptors : \A m \in PackageTypes :
           reads[d][m]["name"] # Unread =>
               reads[d][m]["name"] = descs[d].name \o m
    /\ \A d, e \in Descriptors :
           LET rn == reads[d][PackageType_RUNTIME]["name"]
               dn == reads[e][PackageType_DEVEL]["name"]
           IN (rn # Unread /\ dn # Unread) => rn # dn

\* C12 amended: a read of name returns the stored name followed by the
\* marker of the active mode; the RUNTIME and DEVEL names of one descriptor
\* differ, and the RUNTIME name of p equals the DEVEL name of another
\* descriptor q exactly when the stored name of p is the stored name of q
\* followed by '-devel'.
C12_DerivedNames ==
    /\ \A d \in Descriptors : \A m \in PackageTypes :
           reads[d][m]["name"] # Unread =>
               reads[d][m]["name"] = descs[d].name \o m
    /\ \A d, e \in Descriptors :
           LET rn == reads[d][PackageType_RUNTIME]["name"]
               dn == reads[e][PackageType_DEVEL]["name"]
           IN (rn # Unread /\ dn # Unread) =>
                  /\ d = e => rn # dn
                  /\ (rn = dn) <=>
                         (descs[d].name = descs[e].name \o <<"-devel">>)

\* C12 witness: the descriptor 'a-devel' was read in RUNTIME mode and the
\* descriptor 'a' in DEVEL mode, and 'a' was read in both modes
C12_Witness ==
    /\ descs["p"].name = <<"a", "-devel">>
    /\ descs["q"].name = <<"a">>
    /\ reads["p"][PackageType_RUNTIME]["name"] # Unread
    /\ reads["q"][PackageType_DEVEL]["name"] # Unread
    /\ reads["q"][PackageType_RUNTIME]["name"] # Unread

----------------------------------------------------------------------------
(* Claims about get_sys_deps *)

\* C13: get_sys_deps raises for no mode argument (absent, RUNTIME, DEVEL) and
\* no configuration: it returns the entry of the selected map under the
\* target distro version when there is one, else the entry under the target
\* distro, else the empty list.
C13_NeverRaises ==
    sd_result.map # "none" =>
        /\ sd_result.value # UnboundLocalError
        /\ sd_result.map \in {"sys_deps", "sys_deps_devel"}
        /\ LET sys_deps == sd[sd_result.map]
               version == sd.config.target_distro_version
               distro == sd.config.target_distro
           IN /\ version \in DOMAIN sys_deps =>
                     sd_result.value = sys_deps[version]
              /\ (version \notin DOMAIN sys_deps /\ distro \in DOMAIN sys_deps)
                     => sd_result.value = sys_deps[distro]
              /\ (version \notin DOMAIN sys_deps
                     /\ distro \notin DOMAIN sys_deps)
                     => sd_result.value = <<>>

\* C13 witness: a call without mode on a descriptor in DEVEL mode whose devel
\* map has an entry for the distro and one for the distro version
C13_Witness ==
    /\ sd_result.arg = None
    /\ sd_result.map = "sys_deps_devel"
    /\ DOMAIN sd.sys_deps_devel = SysDepsKeys
    /\ sd.config.target_distro = "redhat"
    /\ sd.config.target_distro_version = "redhat_fedora_30"
    /\ sd_result.value = <<"devel", "redhat_fedora_30">>

\* C14: get_sys_deps called with an explicit mode consults the map of that
\* mode, whatever the descriptor's current package_mode: get_sys_deps(RUNTIME)
\* on a descriptor switched to DEVEL returns the runtime dependencies.
C14_ExplicitMode ==
    sd_result.arg \in PackageTypes =>
        /\ sd_result.arg = PackageType_RUNTIME => sd_result.map = "sys_deps"
        /\ sd_result.arg = PackageType_DEVEL
               => sd_result.map = "sys_deps_devel"

----------------------------------------------------------------------------
(* Claims about the App descriptor *)

RECURSIVE ReachableFrom(_, _)
\* the packages reachable through deps from the packages of S
ReachableFrom(st, S) ==
    LET next == S \cup UNION {Elems(st[n].deps) : n \in S}
    IN IF next = S THEN S ELSE ReachableFrom(st, next)

\* the recipes named by the entries of the packages of S
RecipesNamedBy(st, S) ==
    UNION {Elems(recipe_names(st[n]._files))
               \cup Elems(recipe_names(st[n]._files_devel)) : n \in S}

\* the App's own recipe, when it has one
OwnRecipe == IF app.app_recipe = NoName THEN {} ELSE {app.app_recipe}

\* the recipes of every package reachable from the App's deps
DepsRecipes == RecipesNamedBy(app.store, ReachableFrom(app.store, Elems(app.deps)))

\* C15 as stated: with embed_deps true App.recipes_dependencies() is the union
\* of the recipes_dependencies() of the packages named in deps plus the App's
\* own recipe; with embed_deps false it is the own recipe only; without
\* app_recipe and deps it is empty.
C15_EmbedDepsDecides ==
    app_result.of = "recipes_dependencies" =>
        /\ app.embed_deps =>
               Elems(app_result.value) = DepsRecipes \cup OwnRecipe
        /\ ~app.embed_deps => Elems(app_result.value) = OwnRecipe
        /\ (app.app_recipe = NoName /\ app.deps = <<>>)
               => app_result.value = <<>>

\* C15 amended: whatever embed_deps is, App.recipes_dependencies() returns,
\* each once and in no particular order, the recipes of the
\* recipes_dependencies() of every package named in deps plus the App's own
\* recipe when it has one; without app_recipe and deps it is empty.
C15_AlwaysUnion ==
    app_result.of = "recipes_dependencies" =>
        /\ Elems(app_result.value) = DepsRecipes \cup OwnRecipe
        /\ Len(app_result.value) = Cardinality(Elems(app_result.value))
        /\ (app.app_recipe = NoName /\ app.deps = <<>>)
               => app_result.value = <<>>

\* C15 witness: an App with embed_deps false whose dependency names a recipe
\* other than the App's own, and whose result holds both
C15_Witness ==
    /\ app_result.of = "recipes_dependencies"
    /\ ~app.embed_deps
    /\ app.app_recipe = "recipeB"
    /\ app.deps = <<"base">>
    /\ app_result.value = <<"recipeA", "recipeB">>

\* C16: App.files_list() returns, sorted, with embed_deps true the
\* files_list() of every package reachable through deps (each package once),
\* the libraries() of every recipe of the application recipe's dependency
\* closure and the application recipe's own files, and with embed_deps false
\* the application recipe's own files only; devel_files_list() is empty and
\* all_files_list() equals files_list().
C16_AppFilesList ==
    LET reachable == ReachableFrom(app.store, Elems(app.deps))
        closure == list_recipe_deps(app.app_recipe)
        of_packages(f) ==
            Cardinality({nj \in reachable \X (1..Len(FileOrder)) :
                LET l == stored_files_list(app.store, nj[1])
                IN nj[2] <= Len(l) /\ l[nj[2]] = f})
        of_libraries(f) ==
            CountIn(Len(closure),
                    LAMBDA i : files_list_by_categories(closure[i], <<"libs">>),
                    f)
        own(f) == Count(files_list_by_categories(app.app_recipe, Categories), f)
    IN /\ app_result.of \in {"files_list", "all_files_list"} =>
              /\ IsSorted(app_result.value)
              /\ \A f \in AllFiles :
                     Count(app_result.value, f) =
                         IF app.embed_deps
                         THEN of_packages(f) + of_libraries(f) + own(f)
                         ELSE own(f)
       /\ app_result.of = "devel_files_list" => app_result.value = <<>>

\* C16 witness: an App with embed_deps true whose two dependencies both
\* depend on core, and whose files_list has been computed
C16_Witness ==
    /\ app_result.of = "files_list"
    /\ app.embed_deps
    /\ app.deps = <<"codecs", "base">>
    /\ app.store["base"].deps = <<"core">>
    /\ app.store["codecs"].deps = <<"core">>
    /\ Len(app_result.value) > Len(recipe_files_list(app.app_recipe))

----------------------------------------------------------------------------
(* Claims about InstallerPackage and AppExtensionPackage *)

\* the link of the descriptor: sdk_package or app_package, by its class
LinkOf == IF link.class = "InstallerPackage" THEN link.sdk_package
          ELSE link.app_package

\* C17: get_wix_registry_key raises the fatal error when the link
\* (sdk_package of an InstallerPackage, app_package of an
\* AppExtensionPackage) is unset, without querying the store; when the link
\* names a package of the store it returns that package's
\* get_wix_registry_key(); no other operation of the two classes raises the
\* fatal error.
C17_UnsetLinkIsFatal ==
    /\ link_result.op = "get_wix_registry_key" =>
           /\ LinkOf = NoName =>
                  /\ link_result.raised = "FatalError"
                  /\ link_result.queried = {}
           /\ LinkOf \in DOMAIN link.store =>
                  /\ link_result.raised = "no"
                  /\ link_result.queried \subseteq {LinkOf}
                  /\ link_result.value
                         = get_wix_registry_key(link.store[LinkOf])
    /\ link_result.raised = "FatalError" =>
           /\ link_result.op = "get_wix_registry_key"
           /\ LinkOf = NoName

\* C17 witness: the fatal error of an InstallerPackage without sdk_package
C17_Witness ==
    /\ link.class = "InstallerPackage"
    /\ link.sdk_package = NoName
    /\ link_result.op = "get_wix_registry_key"
    /\ link_result.raised = "FatalError"

----------------------------------------------------------------------------
(* Claims about the packaging pipeline *)

----------------------------------------------------------------------------
(* Claims about run_until_complete *)

\* the tasks of a batch that are in flight
InFlight(b) == {i \in 1..MaxTasks : tasks[b][i].state = "in_flight"}

\* every task of the batch has finished
AllFinished(b) ==
    \A i \in 1..calls[b].n : tasks[b][i].state = "finished"

\* at most max_concurrent tasks of a batch are in flight, and a call that has
\* returned has no unfinished task
GateHolds ==
    \A b \in Batches :
        /\ Cardinality(InFlight(b)) <= calls[b].max_concurrent
        /\ calls[b].pc = "returned" => AllFinished(b)

----------------------------------------------------------------------------
(* run_until_complete: cancellation and results *)

RucReturned == ruc.pc = "returned"

\* the failure that ends the batch is a cancellation
BatchCancelled ==
    /\ ruc.first # 0
    /\ ruc.tasks.ends[ruc.first].end = "cancelled"

\* C21: when the batch of a run_until_complete call is cancelled, the call
\* returns None and raises nothing, for one task and for a collection with
\* or without max_concurrent
C21_CancelledGivesNone ==
    (RucReturned /\ BatchCancelled) => ruc.out = Return(PyNone)

C21_Witness ==
    /\ RucReturned
    /\ BatchCancelled
    /\ ruc.tasks.iterable
    /\ Len(ruc.tasks.ends) = 2
    /\ ruc.max_concurrent > 0
    /\ ~ruc.running
    /\ ruc.out = Return(PyNone)

\* what the docstring promises for tasks that all end with a result
Promised(the_tasks) ==
    IF not_tasks(the_tasks) THEN PyNone
    ELSE IF the_tasks.iterable
         THEN PyList([i \in 1..Len(the_tasks.ends) |->
                          the_tasks.ends[i].value])
         ELSE PyValue(the_tasks.ends[1].value)

\* C22: a run_until_complete call whose tasks all end with a result
\* returns the result of the one task, or the list of every task's result
\* in task order, for every max_concurrent and from inside a running loop
C22_ReturnsResults ==
    (RucReturned /\ Failing(ruc.tasks.ends) = {})
        => ruc.out = Return(Promised(ruc.tasks))

----------------------------------------------------------------------------
(* The package command *)

CmdDone == cmd.pc = "done"

\* C23: the package command calls pack() with devel disabled when
\* -d/--no-devel is given and with devel enabled when it is not
C23_NoDevelDisables ==
    (CmdDone /\ cmd.out.packed = 1) => (cmd.out.pack.devel <=> ~cmd.argv.d)

\* C30: for a name the store does not know, the package command ends
\* with PackageNotFoundError for every combination of options that does not
\* conflict, having started neither a build of dependencies nor a packager;
\* the conflicting pair -s with -b ends with UsageError and nothing built
C30_UnknownNameNotFound ==
    CmdDone =>
        /\ (cmd.argv.s /\ cmd.argv.b) =>
               /\ cmd.out.raised = "UsageError"
               /\ cmd.out.built = <<>>
               /\ cmd.out.packed = 0
        /\ (cmd.argv.package \notin DOMAIN CmdStore
                /\ ~(cmd.argv.s /\ cmd.argv.b)) =>
               /\ cmd.out.raised = "PackageNotFoundError"
               /\ cmd.out.built = <<>>
               /\ cmd.out.packed = 0

----------------------------------------------------------------------------
(* Package: the license maps *)

\* the categories a recipe's entry has in a license map, none when absent
KeysOf(d, recipe) ==
    IF dict_has(d, recipe) THEN DOMAIN dict_at(d, recipe) ELSE {}

\* C24: devel_recipes_licenses() is the license map of the devel entries
\* to which every runtime entry with no category or with the libraries
\* category adds, for its recipe, the licenses of the libraries category
\* only (the recipe's licenses when it has no category); other runtime
\* entries and other runtime categories add nothing
C24_OnlyLibrariesMerged ==
    lic.devel # Unread =>
        \A recipe \in Recipes :
            LET own == KeysOf(list_licenses(lic.self._recipes_files_devel,
                                            <<>>), recipe)
                cats == IF dict_has(lic.self._recipes_files, recipe)
                        THEN dict_at(lic.self._recipes_files, recipe)
                        ELSE <<"none">>
                merged == IF cats = <<>> THEN {"None"}
                          ELSE IF LIBS_CAT \in Elems(cats) THEN {LIBS_CAT}
                          ELSE {}
            IN KeysOf(lic.devel, recipe) = own \cup merged

----------------------------------------------------------------------------
(* The devel sub-package declaration of the spec document *)

\* the number of '%package devel' declarations of a spec document
DevelPackageBlocks(spec_str) == Count(spec_str, "\n%package devel\n")

\* C25: the spec rendered by prepare declares the devel sub-package
\* ('%package devel') only if the devel file list is not empty, and
\* has_devel_package is true exactly when the declaration is rendered
C25_DevelPackageOnlyWithFiles ==
    \A r \in Runs :
        runs[r].pc = "prepared" =>
            /\ DevelPackageBlocks(runs[r]._spec_str) > 0
                   => rpm_in.devel_files # <<>>
            /\ runs[r].has_devel_package
                   <=> DevelPackageBlocks(runs[r]._spec_str) > 0

----------------------------------------------------------------------------
(* The order of the recipes after the duplicates are removed *)

\* C26: App.recipes_dependencies(), like MetaPackage.recipes_dependencies(),
\* keeps the first occurrence of each recipe name in the order of the first
\* occurrences, so the sequence returned is a function of the inputs
C26_FirstOccurrenceWins ==
    app_result.of = "recipes_dependencies" =>
        app_result.value = remove_list_duplicates(app_recipes_dependencies(app))

----------------------------------------------------------------------------
(* Package.load_files: the common and the platform entries *)

\* the files an entry of a package file stands for
entry_files(entry) ==
    LET l == split(entry, ":")
        categories == [i \in 1..(Len(l) - 1) |-> l[i + 1][1]]
    IN IF categories = <<>> THEN dist_files_list(l[1][1])
       ELSE files_list_by_categories(l[1][1], categories)

\* C28: load_files() adds the platform entries to the common ones and
\* replaces none: after it, every entry of files still contributes the files
\* of its recipe and categories to files_list(), also when the platform list
\* names the same recipe with other categories
C28_CommonEntriesKept ==
    (resolved # NotLoaded /\ listing.files_list # Unread) =>
        \A i \in 1..Len(decl.files) :
            Elems(entry_files(decl.files[i])) \subseteq Elems(listing.files_list)

----------------------------------------------------------------------------
(* RPMPackager.build: the architecture table *)

\* the target of the rpmbuild command that was run
TargetBuilt(triple) ==
    /\ Len(bld.out.shell) = 1
    /\ \E i \in 1..Len(bld.out.shell[1]) :
           /\ bld.out.shell[1][i] = "/buildroot --target "
           /\ bld.out.shell[1][i + 1] = triple

\* C29: build runs rpmbuild for 'i686-redhat-linux' on x86 and for
\* 'x86_64-redhat-linux' on x86_64; for any other architecture it raises
\* the fatal error that names the architecture, having run no command and
\* removed or moved no artifact: the output directory is as it was
C29_UnsupportedArchIsFatal ==
    bld.pc = "built" =>
        /\ bld.target_arch = "x86" =>
               bld.out.raised = <<>> /\ TargetBuilt("i686-redhat-linux")
        /\ bld.target_arch = "x86_64" =>
               bld.out.raised = <<>> /\ TargetBuilt("x86_64-redhat-linux")
        /\ bld.target_arch \notin {"x86", "x86_64"} =>
               /\ bld.out.raised = architecture_error(bld.target_arch)
               /\ bld.out.shell = <<>>
               /\ bld.out.log = <<>>
               /\ bld.out.output_dir = bld.output_dir

\* C29 witness: a build for arm has raised, and the output directory still
\* holds the old packages
C29_Witness ==
    /\ bld.pc = "built"
    /\ bld.target_arch = "arm"
    /\ bld.out.raised = <<"Architecture ", "arm", " not supported">>
    /\ bld.out.shell = <<>>
    /\ DOMAIN bld.out.output_dir = OutputNames
    /\ \A f \in OutputNames : bld.out.output_dir[f] = "old"

----------------------------------------------------------------------------
(* The dependency walks on stores with and without cycles *)

\* a package reachable from the root is reachable from itself through deps
Cyclic ==
    \E n \in ReachableFrom(rec.store, {rec.root}) :
        n \in ReachableFrom(rec.store, Elems(rec.store[n].deps))

\* C27 as stated: on a store with a cycle neither walk ever ends, with a
\* result or with an error
C27_CycleNeverEnds ==
    Cyclic => rec.pc \in {"called", "running"}

\* what a call that ended left, by the walk and the store
RecEnds ==
    /\ rec.pc = "returned" => ~Cyclic
    /\ (rec.pc = "returned" /\ rec.op = "recipes_dependencies") =>
           rec.value
               = recipe_names(rec.store[rec.root]._files)
                   \o recipe_names(rec.store[rec.root]._files_devel)
                   \o Concat([i \in 1..Len(rec.store[rec.root].deps) |->
                          package_recipes_dependencies(rec.store,
                              rec.store[rec.root].deps[i])])
    /\ (rec.pc = "returned" /\ rec.op = "files_list") =>
           Elems(rec.value) = ReachableFrom(rec.store, {rec.root})
    /\ rec.pc = "raised" =>
           /\ Cyclic
           /\ rec.op = "recipes_dependencies"
           /\ rec.value = <<"RecursionError">>

\* C27 as amended: Package.recipes_dependencies() returns its own runtime
\* recipes, its own devel recipes, then the recipes_dependencies() of each
\* package of deps; both walks end with their result on a store without a
\* cycle; on a store with a cycle no cycle is detected, recipes_dependencies
\* ends with RecursionError at the recursion limit, and the expansion loop
\* of App.files_list never ends
C27_CycleEndsInRecursionError ==
    /\ []RecEnds
    /\ (~Cyclic ~> rec.pc = "returned")
    /\ ((Cyclic /\ rec.op = "recipes_dependencies") ~> rec.pc = "raised")

\* C27 witness: recipes_dependencies on a package that names itself in deps
\* has ended with RecursionError
C27_Witness ==
    /\ rec.op = "recipes_dependencies"
    /\ rec.root = "a"
    /\ rec.store["a"].deps = <<"a">>
    /\ rec.pc = "raised"
    /\ rec.value = <<"RecursionError">>

====
